---- MODULE Spec2Model ----
(***************************************************************************)
(* Sokoban solver: state model, move generator, deadlock detector,         *)
(* heuristic evaluator and the A* / DFS search drivers.                    *)
(*                                                                         *)
(* Positions are pairs <<x, y>> with x the column and y the row, both      *)
(* 0-based as in the source; a grid is a sequence of rows, each a sequence *)
(* of one-character strings, so the cell of (x, y) is m[y + 1][x + 1].     *)
(* State objects live in the sequence arena; a reference to a State is its *)
(* index in arena and the reference None is 0.                             *)
(***************************************************************************)
EXTENDS Integers, Sequences, FiniteSets

VARIABLES
    level,                  \* the raw grid handed to the entry point
    matrix,                 \* the clean grid every State.matrix copy holds
    arena,                  \* the State objects created so far
    cur,                    \* reference of the State the move generator is applied to
    pc,                     \* position of the program
    solver,                 \* "astar" (SokobanAStar) or "dfs" (SokobanDFS)
    max_states,             \* solver.max_states
    use_deadlock_detection, \* solver.use_deadlock_detection
    open_list,              \* A*: the heap, a set of <<f_cost, tiebreaker, state>>
    stack,                  \* DFS: the stack of states, top last
    closed_set,             \* the state keys explored
    state_costs,            \* A*: best known g-cost per state key
    states_explored,
    states_generated,
    deadlocks_detected,
    duplicate_states,
    result,                 \* the SearchResult returned, if any
    animation               \* print_solution_animation: moves, position, state

config == <<solver, max_states, use_deadlock_detection>>

search == <<open_list, stack, closed_set, state_costs, states_explored,
            states_generated, deadlocks_detected, duplicate_states>>

vars == <<level, matrix, arena, cur, pc, config, search, result, animation>>

-----------------------------------------------------------------------------
(* Bounds of the model *)

MaxBoxes == 2
MaxGoals == 2
MaxChain == 4
MaxStatesSmall == 2
MaxStatesLarge == 12

\* Default of the max_states argument of solve_puzzle.
DefaultMaxStates == 100000

-----------------------------------------------------------------------------
(* Levels *)

\* A ragged grid without a border: rows of different lengths, one wall cell.
\* The middle row is a corridor of four cells, the first column is open over
\* all three rows.
LayoutRagged ==
    << <<" ", " ", " ">>,
       <<" ", " ", " ", " ">>,
       <<" ", "#">> >>

Layouts == {LayoutRagged}

\* The 5x5 level of the concrete scenario: one box one tile from its goal, the
\* player directly behind the box.
LevelOnePush ==
    << <<"#", "#", "#", "#", "#">>,
       <<"#", "@", "$", ".", "#">>,
       <<"#", " ", " ", " ", "#">>,
       <<"#", " ", " ", " ", "#">>,
       <<"#", "#", "#", "#", "#">> >>

\* A 4x3 room with one box: two pushes lead to the same state key.
LevelRevisit ==
    << <<"@", "$", " ", " ">>,
       <<".", " ", " ", " ">>,
       <<" ", " ", " ", " ">> >>

\* A 4x4 room with two boxes: a state is reached a second time at lower cost.
LevelReopen ==
    << <<" ", "*", ".", " ">>,
       <<" ", " ", " ", " ">>,
       <<" ", " ", " ", " ">>,
       <<" ", "@", "$", " ">> >>

\* Two boxes and one goal: the distances of the two boxes to the goal differ.
LevelSurplusBox ==
    << <<" ", " ", " ">>,
       <<"@", "$", " ", "$">>,
       <<".", "#">> >>

FloorCells(m) ==
    {c \in UNION {{<<x, y>> : x \in 0..(Len(m[y + 1]) - 1)} : y \in 0..(Len(m) - 1)} :
        m[c[2] + 1][c[1] + 1] # "#"}

\* The symbol State.print_state writes for one cell.
CellSymbol(m, x, y, players, boxes, goals) ==
    LET pos == <<x, y>> IN
    IF pos \in players THEN (IF pos \in goals THEN "+" ELSE "@")
    ELSE IF pos \in boxes THEN (IF pos \in goals THEN "*" ELSE "$")
    ELSE IF pos \in goals THEN "."
    ELSE m[y + 1][x + 1]

Render(m, players, boxes, goals) ==
    [r \in 1..Len(m) |->
        [c \in 1..Len(m[r]) |-> CellSymbol(m, c - 1, r - 1, players, boxes, goals)]]

\* Raw grids: a layout with at most one player tile, up to MaxBoxes boxes and
\* up to MaxGoals goals drawn on its floor cells.
Levels ==
    UNION {
        {Render(m, players, boxes, goals) :
            <<players, boxes, goals>> \in
                {t \in (SUBSET FloorCells(m)) \X (SUBSET FloorCells(m)) \X (SUBSET FloorCells(m)) :
                    /\ Cardinality(t[1]) <= 1
                    /\ Cardinality(t[2]) <= MaxBoxes
                    /\ Cardinality(t[3]) <= MaxGoals
                    /\ t[1] \cap t[2] = {}}}
        : m \in Layouts}
    \cup {LevelOnePush}

-----------------------------------------------------------------------------
(* State model *)

None == 0

State(player_pos, box_positions, goal_positions) ==
    [player_pos |-> player_pos,
     box_positions |-> box_positions,
     goal_positions |-> goal_positions,
     parent |-> None,
     move_action |-> "None",
     g_cost |-> 0,
     h_cost |-> 0,
     f_cost |-> 0]

is_goal_state_all_boxes_on_goals(s) == s.box_positions \subseteq s.goal_positions

is_goal_state(s) == s.box_positions = s.goal_positions

\* State.__eq__ for two State objects.
__eq__(self, other) ==
    self.player_pos = other.player_pos /\ self.box_positions = other.box_positions

get_state_key(s) == <<s.player_pos, s.box_positions>>

get_boxes_not_on_goals(s) == s.box_positions \ s.goal_positions

get_goals_without_boxes(s) == s.goal_positions \ s.box_positions

is_wall(m, x, y) ==
    IF 0 <= y /\ y < Len(m) /\ 0 <= x /\ x < Len(m[y + 1])
    THEN m[y + 1][x + 1] = "#"
    ELSE TRUE

\* Row-major scan positions of a grid, in scan order.
RECURSIVE ScanRow(_, _, _)
ScanRow(row, y, x) ==
    IF x >= Len(row) THEN <<>> ELSE <<<<x, y>>>> \o ScanRow(row, y, x + 1)

RECURSIVE ScanOrder(_, _)
ScanOrder(m, y) ==
    IF y >= Len(m) THEN <<>> ELSE ScanRow(m[y + 1], y, 0) \o ScanOrder(m, y + 1)

CellsWith(raw, symbols) ==
    {p \in {ScanOrder(raw, 0)[i] : i \in 1..Len(ScanOrder(raw, 0))} :
        raw[p[2] + 1][p[1] + 1] \in symbols}

create_initial_state_star_is_box_only(raw) ==
    LET scan == ScanOrder(raw, 0)
        playerCells == SelectSeq(scan, LAMBDA p : raw[p[2] + 1][p[1] + 1] \in {"@", "+"})
        clean == [r \in 1..Len(raw) |->
                    [c \in 1..Len(raw[r]) |->
                        IF raw[r][c] \in {"@", "+", "$", "*", "."} THEN " " ELSE raw[r][c]]]
    IN  IF Len(playerCells) = 0
        THEN [ok |-> FALSE, clean_matrix |-> clean, state |-> <<>>]
        ELSE [ok |-> TRUE,
              clean_matrix |-> clean,
              state |-> <<State(playerCells[Len(playerCells)],
                                CellsWith(raw, {"$", "*"}),
                                CellsWith(raw, {".", "+"}))>>]

create_initial_state_default_player(raw) ==
    LET scan == ScanOrder(raw, 0)
        playerCells == SelectSeq(scan, LAMBDA p : raw[p[2] + 1][p[1] + 1] \in {"@", "+"})
        clean == [r \in 1..Len(raw) |->
                    [c \in 1..Len(raw[r]) |->
                        IF raw[r][c] \in {"@", "+", "$", "*", "."} THEN " " ELSE raw[r][c]]]
    IN  [ok |-> TRUE,
         clean_matrix |-> clean,
         state |-> <<State(IF Len(playerCells) = 0 THEN <<0, 0>> ELSE playerCells[Len(playerCells)],
                           CellsWith(raw, {"$", "*"}),
                           CellsWith(raw, {".", "*", "+"}))>>]

\* create_initial_state: the last '@' or '+' of the scan is the player; a grid
\* without one raises ValueError (ok = FALSE, no state).
create_initial_state(raw) ==
    LET scan == ScanOrder(raw, 0)
        playerCells == SelectSeq(scan, LAMBDA p : raw[p[2] + 1][p[1] + 1] \in {"@", "+"})
        clean == [r \in 1..Len(raw) |->
                    [c \in 1..Len(raw[r]) |->
                        IF raw[r][c] \in {"@", "+", "$", "*", "."} THEN " " ELSE raw[r][c]]]
    IN  IF Len(playerCells) = 0
        THEN [ok |-> FALSE, clean_matrix |-> clean, state |-> <<>>]
        ELSE [ok |-> TRUE,
              clean_matrix |-> clean,
              state |-> <<State(playerCells[Len(playerCells)],
                                CellsWith(raw, {"$", "*"}),
                                CellsWith(raw, {".", "*", "+"}))>>]

-----------------------------------------------------------------------------
(* Move generator *)

DIRECTIONS == << <<0, -1, "U">>, <<0, 1, "D">>, <<-1, 0, "L">>, <<1, 0, "R">> >>

\* The orders in which a for loop may visit the elements of a set.
Orders(S) == {o \in [1..Cardinality(S) -> S] : \A i, j \in 1..Cardinality(S) : i # j => o[i] # o[j]}

_is_valid_box_position_allows_occupied(m, s, pos) ==
    LET x == pos[1]
        y == pos[2]
    IN  IF ~(0 <= y /\ y < Len(m) /\ 0 <= x /\ x < Len(m[y + 1])) THEN FALSE
        ELSE IF m[y + 1][x + 1] = "#" THEN FALSE
        ELSE TRUE

_is_valid_box_position(m, s, pos) ==
    LET x == pos[1]
        y == pos[2]
    IN  IF ~(0 <= y /\ y < Len(m) /\ 0 <= x /\ x < Len(m[y + 1])) THEN FALSE
        ELSE IF m[y + 1][x + 1] = "#" THEN FALSE
        ELSE IF pos \in s.box_positions THEN FALSE
        ELSE TRUE

FloodStep_through_boxes(m, s, visited) ==
    {new_pos \in {<<p[1] + DIRECTIONS[d][1], p[2] + DIRECTIONS[d][2]>> : p \in visited, d \in 1..4} :
        /\ new_pos \notin visited
        /\ 0 <= new_pos[2] /\ new_pos[2] < Len(m)
        /\ 0 <= new_pos[1] /\ new_pos[1] < Len(m[new_pos[2] + 1])
        /\ m[new_pos[2] + 1][new_pos[1] + 1] # "#"}

\* One round of the flood fill: the cells queued from the cells of visited.
FloodStep(m, s, visited) ==
    {new_pos \in {<<p[1] + DIRECTIONS[d][1], p[2] + DIRECTIONS[d][2]>> : p \in visited, d \in 1..4} :
        /\ new_pos \notin visited
        /\ 0 <= new_pos[2] /\ new_pos[2] < Len(m)
        /\ 0 <= new_pos[1] /\ new_pos[1] < Len(m[new_pos[2] + 1])
        /\ m[new_pos[2] + 1][new_pos[1] + 1] # "#"
        /\ new_pos \notin s.box_positions}

RECURSIVE Flood(_, _, _)
Flood(m, s, visited) ==
    LET new == FloodStep(m, s, visited)
    IN  IF new = {} THEN visited ELSE Flood(m, s, visited \cup new)

_get_player_reachable_positions(m, s) == Flood(m, s, {s.player_pos})

_is_valid_push_any_standing_tile(m, s, new_box_pos, player_push_pos, player_reachable) ==
    IF ~_is_valid_box_position(m, s, new_box_pos) THEN FALSE
    ELSE TRUE

_is_valid_push(m, s, new_box_pos, player_push_pos, player_reachable) ==
    IF ~_is_valid_box_position(m, s, new_box_pos) THEN FALSE
    ELSE IF player_push_pos \notin player_reachable THEN FALSE
    ELSE TRUE

\* The candidate (box, direction) pairs in loop order: boxes in the order the
\* set iteration yields them, directions in the order of DIRECTIONS.
PushCandidates(order) ==
    [k \in 1..(4 * Len(order)) |->
        LET box_pos == order[((k - 1) \div 4) + 1]
            dir == DIRECTIONS[((k - 1) % 4) + 1]
        IN  [box_pos |-> box_pos,
             direction |-> dir[3],
             new_box_pos |-> <<box_pos[1] + dir[1], box_pos[2] + dir[2]>>,
             player_push_pos |-> <<box_pos[1] - dir[1], box_pos[2] - dir[2]>>]]

_generate_push_moves(m, s, order) ==
    LET player_reachable == _get_player_reachable_positions(m, s)
    IN  SelectSeq(PushCandidates(order),
                  LAMBDA mv : _is_valid_push(m, s, mv.new_box_pos, mv.player_push_pos, player_reachable))

_apply_push_move_player_stays_behind(s, ref, move) ==
    [player_pos |-> move.player_push_pos,
     box_positions |-> (s.box_positions \ {move.box_pos}) \cup {move.new_box_pos},
     goal_positions |-> s.goal_positions,
     parent |-> ref,
     move_action |-> move.direction,
     g_cost |-> 0,
     h_cost |-> 0,
     f_cost |-> 0]

_apply_push_move(s, ref, move) ==
    [player_pos |-> move.box_pos,
     box_positions |-> (s.box_positions \ {move.box_pos}) \cup {move.new_box_pos},
     goal_positions |-> s.goal_positions,
     parent |-> ref,
     move_action |-> move.direction,
     g_cost |-> 0,
     h_cost |-> 0,
     f_cost |-> 0]

\* get_successor_states of the State s whose reference is ref.
get_successor_states(m, s, ref, order) ==
    LET push_moves == _generate_push_moves(m, s, order)
    IN  [i \in 1..Len(push_moves) |-> _apply_push_move(s, ref, push_moves[i])]

-----------------------------------------------------------------------------
(* Solution paths *)

RECURSIVE Reverse(_)
Reverse(q) == IF q = <<>> THEN <<>> ELSE Append(Reverse(Tail(q)), Head(q))

\* The loop of get_solution_path: labels from the state ref back to the root.
RECURSIVE PathBack(_, _)
PathBack(ar, current) ==
    IF ar[current].parent = None THEN <<>>
    ELSE (IF ar[current].move_action # "None" THEN <<ar[current].move_action>> ELSE <<>>)
         \o PathBack(ar, ar[current].parent)

get_solution_path_not_reversed(ar, goal_state) == PathBack(ar, goal_state)

get_solution_path(ar, goal_state) == Reverse(PathBack(ar, goal_state))

\* The loop of get_detailed_solution: (move, state) pairs back to the root.
RECURSIVE SolutionBack(_, _)
SolutionBack(ar, current) ==
    IF ar[current].parent = None THEN << <<"None", current>> >>
    ELSE << <<ar[current].move_action, current>> >> \o SolutionBack(ar, ar[current].parent)

get_detailed_solution(ar, goal_state) == Reverse(SolutionBack(ar, goal_state))

\* The neighbours _find_player_path queues from current_pos, in the order of
\* DIRECTIONS, each with the path that leads to it.
PathNeighbours(m, s, current_pos, path, visited) ==
    LET cand == [d \in 1..4 |->
                    [pos |-> <<current_pos[1] + DIRECTIONS[d][1], current_pos[2] + DIRECTIONS[d][2]>>,
                     path |-> Append(path, DIRECTIONS[d][3])]]
    IN  SelectSeq(cand, LAMBDA e :
            /\ e.pos \notin visited
            /\ 0 <= e.pos[2] /\ e.pos[2] < Len(m)
            /\ 0 <= e.pos[1] /\ e.pos[1] < Len(m[e.pos[2] + 1])
            /\ m[e.pos[2] + 1][e.pos[1] + 1] # "#"
            /\ e.pos \notin s.box_positions)

RECURSIVE PathSearch_depth_first(_, _, _, _, _)
PathSearch_depth_first(m, s, target_pos, queue, visited) ==
    IF queue = <<>> THEN <<>>
    ELSE IF Head(queue).pos = target_pos THEN Head(queue).path
    ELSE LET new == PathNeighbours(m, s, Head(queue).pos, Head(queue).path, visited)
         IN  PathSearch_depth_first(m, s, target_pos, new \o Tail(queue),
                        visited \cup {new[i].pos : i \in 1..Len(new)})

RECURSIVE PathSearch(_, _, _, _, _)
PathSearch(m, s, target_pos, queue, visited) ==
    IF queue = <<>> THEN <<>>
    ELSE IF Head(queue).pos = target_pos THEN Head(queue).path
    ELSE LET new == PathNeighbours(m, s, Head(queue).pos, Head(queue).path, visited)
         IN  PathSearch(m, s, target_pos, Tail(queue) \o new,
                        visited \cup {new[i].pos : i \in 1..Len(new)})

_find_player_path(m, s, start_pos, target_pos) ==
    IF start_pos = target_pos THEN <<>>
    ELSE PathSearch(m, s, target_pos, <<[pos |-> start_pos, path |-> <<>>]>>, {start_pos})

DirectionMap(label) ==
    CASE label = "U" -> <<0, -1>>
      [] label = "D" -> <<0, 1>>
      [] label = "L" -> <<-1, 0>>
      [] label = "R" -> <<1, 0>>

_calculate_player_path_for_push_no_walk(m, from_state, to_state, push_direction) ==
    <<push_direction>>

_calculate_player_path_for_push(m, from_state, to_state, push_direction) ==
    LET moved_from == from_state.box_positions \ to_state.box_positions
        moved_to == to_state.box_positions \ from_state.box_positions
    IN  IF moved_from = {} \/ moved_to = {} THEN <<push_direction>>
        ELSE LET box_from == CHOOSE b \in moved_from : TRUE
                 d == DirectionMap(push_direction)
                 player_push_pos == <<box_from[1] - d[1], box_from[2] - d[2]>>
             IN  Append(_find_player_path(m, from_state, from_state.player_pos, player_push_pos),
                        push_direction)

RECURSIVE Concat(_)
Concat(qs) == IF qs = <<>> THEN <<>> ELSE Head(qs) \o Concat(Tail(qs))

get_detailed_solution_with_player_moves(m, ar, goal_state) ==
    LET push_solution == get_detailed_solution(ar, goal_state)
    IN  Concat([i \in 1..Len(push_solution) |->
                    IF i = 1 THEN <<>>
                    ELSE IF ar[push_solution[i][2]].parent = None THEN <<>>
                    ELSE _calculate_player_path_for_push(m,
                            ar[ar[push_solution[i][2]].parent],
                            ar[push_solution[i][2]],
                            push_solution[i][1])])

get_solution_moves(ar, goal_state) == get_solution_path(ar, goal_state)

get_detailed_solution_moves(m, ar, goal_state) ==
    get_detailed_solution_with_player_moves(m, ar, goal_state)

apply_single_move_pushes_into_boxes(m, s, move_direction) ==
    IF move_direction \notin {"U", "D", "L", "R"} THEN <<>>
    ELSE LET d == DirectionMap(move_direction)
             new_player_pos == <<s.player_pos[1] + d[1], s.player_pos[2] + d[2]>>
             box_new_pos == <<new_player_pos[1] + d[1], new_player_pos[2] + d[2]>>
             inside(pos) == /\ 0 <= pos[2] /\ pos[2] < Len(m)
                            /\ 0 <= pos[1] /\ pos[1] < Len(m[pos[2] + 1])
         IN  IF ~inside(new_player_pos) THEN <<>>
             ELSE IF m[new_player_pos[2] + 1][new_player_pos[1] + 1] = "#" THEN <<>>
             ELSE IF new_player_pos \in s.box_positions
                  THEN IF ~inside(box_new_pos) THEN <<>>
                       ELSE IF m[box_new_pos[2] + 1][box_new_pos[1] + 1] = "#" THEN <<>>
                       ELSE <<State(new_player_pos,
                                    (s.box_positions \ {new_player_pos}) \cup {box_new_pos},
                                    s.goal_positions)>>
                  ELSE <<State(new_player_pos, s.box_positions, s.goal_positions)>>

\* apply_single_move: <<>> for None, else the one new state.
apply_single_move(m, s, move_direction) ==
    IF move_direction \notin {"U", "D", "L", "R"} THEN <<>>
    ELSE LET d == DirectionMap(move_direction)
             new_player_pos == <<s.player_pos[1] + d[1], s.player_pos[2] + d[2]>>
             box_new_pos == <<new_player_pos[1] + d[1], new_player_pos[2] + d[2]>>
             inside(pos) == /\ 0 <= pos[2] /\ pos[2] < Len(m)
                            /\ 0 <= pos[1] /\ pos[1] < Len(m[pos[2] + 1])
         IN  IF ~inside(new_player_pos) THEN <<>>
             ELSE IF m[new_player_pos[2] + 1][new_player_pos[1] + 1] = "#" THEN <<>>
             ELSE IF new_player_pos \in s.box_positions
                  THEN IF ~inside(box_new_pos) THEN <<>>
                       ELSE IF m[box_new_pos[2] + 1][box_new_pos[1] + 1] = "#" THEN <<>>
                       ELSE IF box_new_pos \in s.box_positions THEN <<>>
                       ELSE <<State(new_player_pos,
                                    (s.box_positions \ {new_player_pos}) \cup {box_new_pos},
                                    s.goal_positions)>>
                  ELSE <<State(new_player_pos, s.box_positions, s.goal_positions)>>

-----------------------------------------------------------------------------
(* Deadlock detector *)

\* DeadlockDetector._is_wall: the value stored in walls_cache on the first
\* query of a coordinate and returned on every later one.
_is_wall(m, x, y) ==
    IF 0 <= y /\ y < Len(m) /\ 0 <= x /\ x < Len(m[y + 1])
    THEN m[y + 1][x + 1] = "#"
    ELSE TRUE

_is_wall_cached_keyed_by_column(m, walls_cache, x, y) ==
    LET pos == <<x, 0>>
        value == IF 0 <= y /\ y < Len(m) /\ 0 <= x /\ x < Len(m[y + 1])
                 THEN m[y + 1][x + 1] = "#"
                 ELSE TRUE
        cache == IF pos \in DOMAIN walls_cache THEN walls_cache
                 ELSE [p \in DOMAIN walls_cache \cup {pos} |->
                          IF p = pos THEN value ELSE walls_cache[p]]
    IN  [value |-> cache[pos], walls_cache |-> cache, hit |-> pos \in DOMAIN walls_cache]

\* _is_wall with its dictionary: walls_cache maps the positions queried so
\* far to the answers given; a miss stores the answer, a hit returns the
\* stored one. The result holds the answer and the dictionary afterwards.
_is_wall_cached(m, walls_cache, x, y) ==
    LET pos == <<x, y>>
        value == IF 0 <= y /\ y < Len(m) /\ 0 <= x /\ x < Len(m[y + 1])
                 THEN m[y + 1][x + 1] = "#"
                 ELSE TRUE
        cache == IF pos \in DOMAIN walls_cache THEN walls_cache
                 ELSE [p \in DOMAIN walls_cache \cup {pos} |->
                          IF p = pos THEN value ELSE walls_cache[p]]
    IN  [value |-> cache[pos], walls_cache |-> cache, hit |-> pos \in DOMAIN walls_cache]

\* The operands of the four corner patterns of _is_simple_deadlock.
corner_patterns(x, y) ==
    << << <<x - 1, y>>, <<x, y - 1>> >>,
       << <<x + 1, y>>, <<x, y - 1>> >>,
       << <<x - 1, y>>, <<x, y + 1>> >>,
       << <<x + 1, y>>, <<x, y + 1>> >> >>

\* The lookups the corner patterns of one box make, in order: the second
\* operand of an 'and' is looked up only when the first is a wall. The log
\* holds position, answer and whether the dictionary had the position.
RECURSIVE CornerLookups(_, _, _, _)
CornerLookups(m, patterns, k, acc) ==
    IF k > Len(patterns) THEN acc
    ELSE LET first == _is_wall_cached(m, acc.walls_cache, patterns[k][1][1], patterns[k][1][2])
             second == _is_wall_cached(m, first.walls_cache, patterns[k][2][1], patterns[k][2][2])
         IN  IF first.value
             THEN CornerLookups(m, patterns, k + 1,
                    [walls_cache |-> second.walls_cache,
                     log |-> acc.log \o << <<patterns[k][1], first.value, first.hit>>,
                                           <<patterns[k][2], second.value, second.hit>> >>,
                     any |-> acc.any \/ second.value])
             ELSE CornerLookups(m, patterns, k + 1,
                    [walls_cache |-> first.walls_cache,
                     log |-> Append(acc.log, <<patterns[k][1], first.value, first.hit>>),
                     any |-> acc.any])

\* The corner tests of the boxes boxes[k..] on one detector, which keeps its
\* dictionary from one box to the next.
RECURSIVE DetectorLookups(_, _, _, _)
DetectorLookups(m, boxes, k, acc) ==
    IF k > Len(boxes) THEN acc
    ELSE DetectorLookups(m, boxes, k + 1,
            CornerLookups(m, corner_patterns(boxes[k][1], boxes[k][2]), 1,
                          [acc EXCEPT !.any = FALSE]))

_is_simple_deadlock_any_wall(m, s, box_pos) ==
    LET x == box_pos[1]
        y == box_pos[2]
    IN  IF box_pos \in s.goal_positions THEN FALSE
        ELSE \/ (_is_wall(m, x - 1, y) \/ _is_wall(m, x, y - 1))
             \/ (_is_wall(m, x + 1, y) \/ _is_wall(m, x, y - 1))
             \/ (_is_wall(m, x - 1, y) \/ _is_wall(m, x, y + 1))
             \/ (_is_wall(m, x + 1, y) \/ _is_wall(m, x, y + 1))

_is_simple_deadlock_three_corners(m, s, box_pos) ==
    LET x == box_pos[1]
        y == box_pos[2]
    IN  IF box_pos \in s.goal_positions THEN FALSE
        ELSE \/ (_is_wall(m, x + 1, y) /\ _is_wall(m, x, y - 1))
             \/ (_is_wall(m, x - 1, y) /\ _is_wall(m, x, y + 1))
             \/ (_is_wall(m, x + 1, y) /\ _is_wall(m, x, y + 1))

_is_simple_deadlock(m, s, box_pos) ==
    LET x == box_pos[1]
        y == box_pos[2]
    IN  IF box_pos \in s.goal_positions THEN FALSE
        ELSE \/ (_is_wall(m, x - 1, y) /\ _is_wall(m, x, y - 1))
             \/ (_is_wall(m, x + 1, y) /\ _is_wall(m, x, y - 1))
             \/ (_is_wall(m, x - 1, y) /\ _is_wall(m, x, y + 1))
             \/ (_is_wall(m, x + 1, y) /\ _is_wall(m, x, y + 1))

FreezeDirections == << <<0, 1>>, <<0, -1>>, <<1, 0>>, <<-1, 0>> >>

_is_freeze_deadlock_needs_both_axes(m, all_boxes) ==
    LET can_move ==
            \E box_pos \in all_boxes : \A d \in 1..4 :
                LET new_x == box_pos[1] + FreezeDirections[d][1]
                    new_y == box_pos[2] + FreezeDirections[d][2]
                    behind_x == box_pos[1] - FreezeDirections[d][1]
                    behind_y == box_pos[2] - FreezeDirections[d][2]
                IN  /\ ~_is_wall(m, new_x, new_y)
                    /\ <<new_x, new_y>> \notin all_boxes
                    /\ ~_is_wall(m, behind_x, behind_y)
                    /\ <<behind_x, behind_y>> \notin all_boxes
    IN  ~can_move

_is_freeze_deadlock(m, all_boxes) ==
    LET can_move ==
            \E box_pos \in all_boxes : \E d \in 1..4 :
                LET new_x == box_pos[1] + FreezeDirections[d][1]
                    new_y == box_pos[2] + FreezeDirections[d][2]
                    behind_x == box_pos[1] - FreezeDirections[d][1]
                    behind_y == box_pos[2] - FreezeDirections[d][2]
                IN  /\ ~_is_wall(m, new_x, new_y)
                    /\ <<new_x, new_y>> \notin all_boxes
                    /\ ~_is_wall(m, behind_x, behind_y)
                    /\ <<behind_x, behind_y>> \notin all_boxes
    IN  ~can_move

is_deadlock_no_goal_test(m, s) ==
    LET boxes == get_boxes_not_on_goals(s)
    IN  IF \E box \in boxes : _is_simple_deadlock(m, s, box) THEN TRUE
        ELSE IF _is_freeze_deadlock(m, boxes) THEN TRUE
        ELSE FALSE

is_deadlock(m, s) ==
    IF is_goal_state(s) THEN FALSE
    ELSE LET boxes == get_boxes_not_on_goals(s)
         IN  IF \E box \in boxes : _is_simple_deadlock(m, s, box) THEN TRUE
             ELSE IF _is_freeze_deadlock(m, boxes) THEN TRUE
             ELSE FALSE

detect_deadlock(m, s) == is_deadlock(m, s)

-----------------------------------------------------------------------------
(* Heuristic evaluator *)

Abs(n) == IF n < 0 THEN -n ELSE n

Min(S) == CHOOSE n \in S : \A k \in S : n <= k

_manhattan_distance(pos1, pos2) == Abs(pos1[1] - pos2[1]) + Abs(pos1[2] - pos2[2])

RECURSIVE SumSeq(_)
SumSeq(q) == IF q = <<>> THEN 0 ELSE Head(q) + SumSeq(Tail(q))

\* _simple_manhattan_heuristic: each box to its nearest unfilled goal.
_simple_manhattan_heuristic(s, boxes) ==
    IF is_goal_state(s) THEN 0
    ELSE SumSeq([i \in 1..Len(boxes) |->
                    Min({_manhattan_distance(boxes[i], goal) : goal \in get_goals_without_boxes(s)})])

\* itertools.permutations(goals, r): the injective r-tuples of goals.
permutations(goals, r) ==
    {t \in [1..r -> goals] : \A i, j \in 1..r : i # j => t[i] # t[j]}

\* _min_cost_assignment over the list boxes (in its iteration order) and the
\* set of the list goals.
_min_cost_assignment(boxes, goals) ==
    IF boxes = <<>> \/ goals = {} THEN 0
    ELSE LET min_boxes == IF Len(boxes) <= Cardinality(goals) THEN Len(boxes) ELSE Cardinality(goals)
         IN  Min({SumSeq([i \in 1..min_boxes |-> _manhattan_distance(boxes[i], goal_perm[i])]) :
                    goal_perm \in permutations(goals, min_boxes)})

\* boxes is list(state.get_boxes_not_on_goals()) in the order the set yields.
_hungarian_assignment_heuristic(s, boxes) ==
    IF is_goal_state(s) THEN 0
    ELSE LET goals == get_goals_without_boxes(s)
         IN  IF boxes = <<>> \/ goals = {} THEN 0
             ELSE IF Len(boxes) <= 4 /\ Cardinality(goals) <= 4
                  THEN _min_cost_assignment(boxes, goals)
                  ELSE _simple_manhattan_heuristic(s, boxes)

_is_corner_deadlock(m, s, x, y) ==
    IF <<x, y>> \in s.goal_positions THEN FALSE
    ELSE \/ (is_wall(m, x - 1, y) /\ is_wall(m, x, y - 1))
         \/ (is_wall(m, x + 1, y) /\ is_wall(m, x, y - 1))
         \/ (is_wall(m, x - 1, y) /\ is_wall(m, x, y + 1))
         \/ (is_wall(m, x + 1, y) /\ is_wall(m, x, y + 1))

_is_edge_deadlock_swapped_lines(m, s, x, y) ==
    IF <<x, y>> \in s.goal_positions THEN FALSE
    ELSE LET horizontal_wall == is_wall(m, x, y - 1) \/ is_wall(m, x, y + 1)
             row_goals == \E goal \in s.goal_positions : goal[2] = y
             vertical_wall == is_wall(m, x - 1, y) \/ is_wall(m, x + 1, y)
             col_goals == \E goal \in s.goal_positions : goal[1] = x
             against_wall == horizontal_wall \/ vertical_wall
             no_goals_in_direction == (horizontal_wall /\ ~col_goals) \/ (vertical_wall /\ ~row_goals)
         IN  against_wall /\ no_goals_in_direction

_is_edge_deadlock(m, s, x, y) ==
    IF <<x, y>> \in s.goal_positions THEN FALSE
    ELSE LET horizontal_wall == is_wall(m, x, y - 1) \/ is_wall(m, x, y + 1)
             row_goals == \E goal \in s.goal_positions : goal[2] = y
             vertical_wall == is_wall(m, x - 1, y) \/ is_wall(m, x + 1, y)
             col_goals == \E goal \in s.goal_positions : goal[1] = x
             against_wall == horizontal_wall \/ vertical_wall
             no_goals_in_direction == (horizontal_wall /\ ~row_goals) \/ (vertical_wall /\ ~col_goals)
         IN  against_wall /\ no_goals_in_direction

BoxPenalty(m, s, box) ==
    IF _is_corner_deadlock(m, s, box[1], box[2]) THEN 100
    ELSE IF _is_edge_deadlock(m, s, box[1], box[2]) THEN 10
    ELSE 0

RECURSIVE SumOver(_, _, _)
SumOver(m, s, boxes) ==
    IF boxes = {} THEN 0
    ELSE LET box == CHOOSE b \in boxes : TRUE
         IN  BoxPenalty(m, s, box) + SumOver(m, s, boxes \ {box})

_calculate_deadlock_penalty(m, s) == SumOver(m, s, get_boxes_not_on_goals(s))

\* our_heuristic, with boxes the list of the off-goal boxes in the order the
\* set iteration yields them.
our_heuristic(m, s, boxes) ==
    IF is_goal_state(s) THEN 0
    ELSE LET base_cost == _hungarian_assignment_heuristic(s, boxes)
             off_goal == get_boxes_not_on_goals(s)
             player_cost ==
                IF off_goal # {}
                THEN LET min_player_distance ==
                            Min({_manhattan_distance(s.player_pos, box) : box \in off_goal})
                     IN  IF min_player_distance - 1 > 0 THEN min_player_distance - 1 ELSE 0
                ELSE 0
             deadlock_penalty == _calculate_deadlock_penalty(m, s)
         IN  base_cost + player_cost + deadlock_penalty

\* The values the heuristic can return for s, over the iteration orders of
\* its off-goal box set.
HeuristicValues(m, s) ==
    {our_heuristic(m, s, boxes) : boxes \in Orders(get_boxes_not_on_goals(s))}

-----------------------------------------------------------------------------
(* Walks of pushes: generate_moves applied to a state, then to one of its  *)
(* successors, and so on.                                                  *)

\* The search variables before any solve call.
Idle ==
    /\ open_list = {}
    /\ stack = <<>>
    /\ closed_set = {}
    /\ state_costs = <<>>
    /\ states_explored = 0
    /\ states_generated = 0
    /\ deadlocks_detected = 0
    /\ duplicate_states = 0
    /\ result = <<>>
    /\ animation = [moves |-> <<>>, index |-> 0, state |-> <<>>]

InitMoves ==
    /\ level \in Levels
    /\ matrix = create_initial_state(level).clean_matrix
    /\ arena = create_initial_state(level).state
    /\ cur = Len(arena)
    /\ pc = "moves"
    /\ solver = "none"
    /\ max_states = DefaultMaxStates
    /\ use_deadlock_detection = TRUE
    /\ Idle

GenerateMoves ==
    /\ pc = "moves"
    /\ cur # None
    /\ Len(arena) < MaxChain
    /\ \E order \in Orders(arena[cur].box_positions) :
        LET successors == get_successor_states(matrix, arena[cur], cur, order)
        IN  \E i \in 1..Len(successors) :
                /\ arena' = Append(arena, successors[i])
                /\ cur' = Len(arena) + 1
    /\ UNCHANGED <<level, matrix, pc, config, search, result, animation>>

NextMoves == GenerateMoves

SpecMoves == InitMoves /\ [][NextMoves]_vars

-----------------------------------------------------------------------------
(* Search drivers: SokobanAStar.solve_puzzle and SokobanDFS.solve_puzzle,  *)
(* one action per evaluation of the loop head, followed by the replay of   *)
(* the detailed solution of a successful result.                           *)

\* The cells the goals of the levels handed to the drivers are drawn from;
\* the generated levels have no more boxes than goals.
SolveGoalCells == {<<0, 2>>, <<3, 1>>, <<1, 0>>}

SolveLevels ==
    UNION {
        {Render(m, players, boxes, goals) :
            <<players, boxes, goals>> \in
                {t \in (SUBSET FloorCells(m)) \X (SUBSET FloorCells(m)) \X (SUBSET SolveGoalCells) :
                    /\ Cardinality(t[1]) <= 1
                    /\ Cardinality(t[2]) <= MaxBoxes
                    /\ Cardinality(t[2]) <= Cardinality(t[3])
                    /\ Cardinality(t[3]) <= MaxGoals
                    /\ t[1] \cap t[2] = {}}}
        : m \in Layouts}
    \cup {LevelOnePush, LevelRevisit, LevelReopen, LevelSurplusBox}

SearchResult(success, solution, explored, final_state, error_message) ==
    [success |-> success,
     solution |-> solution,
     states_explored |-> explored,
     final_state |-> final_state,
     error_message |-> error_message]

ErrorResult_without_message(text) == SearchResult(FALSE, <<>>, 0, None, <<>>)

\* The result the except clause of solve_puzzle builds.
ErrorResult(text) == SearchResult(FALSE, <<>>, 0, None, <<"Error during solving: " \o text>>)

StateLimitReached_when_above(explored, limit) == explored > limit

\* The state limit test at the head of the loop of either driver.
StateLimitReached(explored, limit) == explored >= limit

InitSolve ==
    /\ level \in SolveLevels
    /\ matrix = <<>>
    /\ arena = <<>>
    /\ cur = None
    /\ pc = "call"
    /\ solver \in {"astar", "dfs"}
    /\ max_states \in {MaxStatesSmall, MaxStatesLarge}
    /\ use_deadlock_detection \in BOOLEAN
    /\ Idle

\* SokobanAStar.solve_puzzle up to the first evaluation of the loop head.
AStarSolvePuzzle ==
    /\ pc = "call"
    /\ solver = "astar"
    /\ \E created \in {create_initial_state(level)} :
           IF ~created.ok
           THEN /\ result' = <<ErrorResult("No player position found in the level")>>
                /\ pc' = "returned"
                /\ UNCHANGED <<matrix, arena, search>>
           ELSE \E initial_state \in {created.state[1]} :
                    /\ matrix' = created.clean_matrix
                    /\ IF is_goal_state(initial_state)
                       THEN /\ arena' = <<initial_state>>
                            /\ result' = <<SearchResult(TRUE, <<>>, 1, 1, <<>>)>>
                            /\ pc' = "returned"
                            /\ UNCHANGED search
                       ELSE \E h \in HeuristicValues(created.clean_matrix, initial_state) :
                            /\ arena' = <<[initial_state EXCEPT !.h_cost = h, !.g_cost = 0, !.f_cost = 0 + h]>>
                            /\ open_list' = {<<0 + h, 0, 1>>}
                            /\ state_costs' = [k \in {get_state_key(initial_state)} |-> 0]
                            /\ closed_set' = {}
                            /\ states_explored' = 0
                            /\ states_generated' = 0
                            /\ deadlocks_detected' = 0
                            /\ duplicate_states' = 0
                            /\ pc' = "loop"
                            /\ UNCHANGED <<stack, result>>
    /\ UNCHANGED <<level, cur, config, animation>>

AStarExhausted ==
    /\ pc = "loop"
    /\ solver = "astar"
    /\ open_list = {}
    /\ result' = <<SearchResult(FALSE, <<>>, states_explored, None,
                                <<"No solution exists (open list exhausted)">>)>>
    /\ pc' = "returned"
    /\ UNCHANGED <<level, matrix, arena, cur, config, search, animation>>

\* time.time() - start_time > max_time: the clock may have passed the bound
\* at any evaluation of the loop head.
AStarTimeout ==
    /\ pc = "loop"
    /\ solver = "astar"
    /\ open_list # {}
    /\ result' = <<SearchResult(FALSE, <<>>, states_explored, None, <<"Timeout after max_time s">>)>>
    /\ pc' = "returned"
    /\ UNCHANGED <<level, matrix, arena, cur, config, search, animation>>

AStarStateLimit ==
    /\ pc = "loop"
    /\ solver = "astar"
    /\ open_list # {}
    /\ StateLimitReached(states_explored, max_states)
    /\ result' = <<SearchResult(FALSE, <<>>, states_explored, None, <<"State limit reached (max_states)">>)>>
    /\ pc' = "returned"
    /\ UNCHANGED <<level, matrix, arena, cur, config, search, animation>>

HeapTop_latest_on_tie(heap) ==
    CHOOSE e \in heap : \A o \in heap :
        \/ e[1] < o[1]
        \/ (e[1] = o[1] /\ e[2] >= o[2])

\* heapq.heappop: the least entry by (f_cost, tiebreaker).
HeapTop(heap) ==
    CHOOSE e \in heap : \A o \in heap :
        \/ e[1] < o[1]
        \/ (e[1] = o[1] /\ e[2] <= o[2])

AStarSkipClosed_counts_entry ==
    /\ pc = "loop"
    /\ solver = "astar"
    /\ open_list # {}
    /\ ~StateLimitReached(states_explored, max_states)
    /\ get_state_key(arena[HeapTop(open_list)[3]]) \in closed_set
    /\ open_list' = open_list \ {HeapTop(open_list)}
    /\ states_explored' = states_explored + 1
    /\ UNCHANGED <<level, matrix, arena, cur, pc, config, stack, closed_set, state_costs,
                   states_generated, deadlocks_detected, duplicate_states,
                   result, animation>>

AStarSkipClosed ==
    /\ pc = "loop"
    /\ solver = "astar"
    /\ open_list # {}
    /\ ~StateLimitReached(states_explored, max_states)
    /\ get_state_key(arena[HeapTop(open_list)[3]]) \in closed_set
    /\ open_list' = open_list \ {HeapTop(open_list)}
    /\ UNCHANGED <<level, matrix, arena, cur, pc, config, stack, closed_set, state_costs,
                   states_explored, states_generated, deadlocks_detected, duplicate_states,
                   result, animation>>

\* The goal branch calls MoveGenerator(current_state).get_detailed_solution_moves,
\* which is a module function and no method of MoveGenerator: AttributeError,
\* caught by solve_puzzle.
AStarGoalReached ==
    /\ pc = "loop"
    /\ solver = "astar"
    /\ open_list # {}
    /\ ~StateLimitReached(states_explored, max_states)
    /\ LET current_state == HeapTop(open_list)[3]
       IN  /\ get_state_key(arena[current_state]) \notin closed_set
           /\ is_goal_state(arena[current_state])
           /\ open_list' = open_list \ {HeapTop(open_list)}
           /\ closed_set' = closed_set \cup {get_state_key(arena[current_state])}
           /\ states_explored' = states_explored + 1
           /\ result' = <<ErrorResult("'MoveGenerator' object has no attribute 'get_detailed_solution_moves'")>>
           /\ pc' = "returned"
    /\ UNCHANGED <<level, matrix, arena, cur, config, stack, state_costs,
                   states_generated, deadlocks_detected, duplicate_states, animation>>

\* The sequences that take their k-th element from the k-th set.
RECURSIVE SeqProduct(_)
SeqProduct(sets) ==
    IF sets = <<>> THEN {<<>>}
    ELSE {<<x>> \o rest : x \in Head(sets), rest \in SeqProduct(Tail(sets))}

\* The for loop of A* over successors[k..], hs[k] being the heuristic value
\* of successors[k].
RECURSIVE AStarSuccessors(_, _, _, _, _, _, _, _)
RECURSIVE AStarSuccessors_flat_cost(_, _, _, _, _, _, _, _)
AStarSuccessors_flat_cost(m, successors, hs, k, current_g, prune, closed, acc) ==
    IF k > Len(successors) THEN acc
    ELSE LET generated == acc.states_generated + 1
             g == current_g
             successor == [successors[k] EXCEPT !.g_cost = g, !.h_cost = hs[k], !.f_cost = g + hs[k]]
             successor_key == get_state_key(successor)
         IN  IF prune /\ detect_deadlock(m, successors[k])
             THEN AStarSuccessors_flat_cost(m, successors, hs, k + 1, current_g, prune, closed,
                    [acc EXCEPT !.states_generated = generated,
                                !.deadlocks_detected = @ + 1])
             ELSE IF /\ successor_key \in DOMAIN acc.state_costs
                     /\ acc.state_costs[successor_key] <= g
             THEN AStarSuccessors_flat_cost(m, successors, hs, k + 1, current_g, prune, closed,
                    [acc EXCEPT !.states_generated = generated,
                                !.duplicate_states = @ + 1])
             ELSE IF successor_key \in closed
             THEN AStarSuccessors_flat_cost(m, successors, hs, k + 1, current_g, prune, closed,
                    [acc EXCEPT !.states_generated = generated])
             ELSE AStarSuccessors_flat_cost(m, successors, hs, k + 1, current_g, prune, closed,
                    [acc EXCEPT !.states_generated = generated,
                                !.state_costs = [key \in DOMAIN @ \cup {successor_key} |->
                                                    IF key = successor_key THEN g ELSE @[key]],
                                !.arena = Append(@, successor),
                                !.open_list = @ \cup {<<g + hs[k], generated, Len(acc.arena) + 1>>}])

AStarSuccessors(m, successors, hs, k, current_g, prune, closed, acc) ==
    IF k > Len(successors) THEN acc
    ELSE LET generated == acc.states_generated + 1
             g == current_g + 1
             successor == [successors[k] EXCEPT !.g_cost = g, !.h_cost = hs[k], !.f_cost = g + hs[k]]
             successor_key == get_state_key(successor)
         IN  IF prune /\ detect_deadlock(m, successors[k])
             THEN AStarSuccessors(m, successors, hs, k + 1, current_g, prune, closed,
                    [acc EXCEPT !.states_generated = generated,
                                !.deadlocks_detected = @ + 1])
             ELSE IF /\ successor_key \in DOMAIN acc.state_costs
                     /\ acc.state_costs[successor_key] <= g
             THEN AStarSuccessors(m, successors, hs, k + 1, current_g, prune, closed,
                    [acc EXCEPT !.states_generated = generated,
                                !.duplicate_states = @ + 1])
             ELSE IF successor_key \in closed
             THEN AStarSuccessors(m, successors, hs, k + 1, current_g, prune, closed,
                    [acc EXCEPT !.states_generated = generated])
             ELSE AStarSuccessors(m, successors, hs, k + 1, current_g, prune, closed,
                    [acc EXCEPT !.states_generated = generated,
                                !.state_costs = [key \in DOMAIN @ \cup {successor_key} |->
                                                    IF key = successor_key THEN g ELSE @[key]],
                                !.arena = Append(@, successor),
                                !.open_list = @ \cup {<<g + hs[k], generated, Len(acc.arena) + 1>>}])

AStarExpand ==
    /\ pc = "loop"
    /\ solver = "astar"
    /\ open_list # {}
    /\ ~StateLimitReached(states_explored, max_states)
    /\ LET current_state == HeapTop(open_list)[3]
           closed == closed_set \cup {get_state_key(arena[current_state])}
       IN  /\ get_state_key(arena[current_state]) \notin closed_set
           /\ ~is_goal_state(arena[current_state])
           /\ \E order \in Orders(arena[current_state].box_positions) :
                \E successors \in {get_successor_states(matrix, arena[current_state], current_state, order)} :
                \E choices \in {[k \in 1..Len(successors) |->
                                    IF use_deadlock_detection /\ detect_deadlock(matrix, successors[k])
                                    THEN {0}
                                    ELSE HeuristicValues(matrix, successors[k])]} :
                    \E hs \in SeqProduct(choices) :
                        \E acc \in {AStarSuccessors(matrix, successors, hs, 1,
                                        arena[current_state].g_cost, use_deadlock_detection, closed,
                                        [arena |-> arena,
                                         open_list |-> open_list \ {HeapTop(open_list)},
                                         state_costs |-> state_costs,
                                         states_generated |-> states_generated,
                                         deadlocks_detected |-> deadlocks_detected,
                                         duplicate_states |-> duplicate_states])} :
                            /\ arena' = acc.arena
                            /\ open_list' = acc.open_list
                            /\ state_costs' = acc.state_costs
                            /\ states_generated' = acc.states_generated
                            /\ deadlocks_detected' = acc.deadlocks_detected
                            /\ duplicate_states' = acc.duplicate_states
           /\ closed_set' = closed
           /\ states_explored' = states_explored + 1
    /\ UNCHANGED <<level, matrix, cur, pc, config, stack, result, animation>>

DFSSolvePuzzle_no_initial_goal_test ==
    /\ pc = "call"
    /\ solver = "dfs"
    /\ \E created \in {create_initial_state(level)} :
           IF ~created.ok
           THEN /\ result' = <<ErrorResult("No player position found in the level")>>
                /\ pc' = "returned"
                /\ UNCHANGED <<matrix, arena, search>>
           ELSE \E initial_state \in {created.state[1]} :
                    /\ matrix' = created.clean_matrix
                    /\ arena' = <<initial_state>>
                    /\ stack' = <<1>>
                    /\ closed_set' = {}
                    /\ states_explored' = 0
                    /\ states_generated' = 0
                    /\ deadlocks_detected' = 0
                    /\ duplicate_states' = 0
                    /\ pc' = "loop"
                    /\ UNCHANGED <<open_list, state_costs, result>>
    /\ UNCHANGED <<level, cur, config, animation>>

\* SokobanDFS.solve_puzzle up to the first evaluation of the loop head.
DFSSolvePuzzle ==
    /\ pc = "call"
    /\ solver = "dfs"
    /\ \E created \in {create_initial_state(level)} :
           IF ~created.ok
           THEN /\ result' = <<ErrorResult("No player position found in the level")>>
                /\ pc' = "returned"
                /\ UNCHANGED <<matrix, arena, search>>
           ELSE \E initial_state \in {created.state[1]} :
                    /\ matrix' = created.clean_matrix
                    /\ arena' = <<initial_state>>
                    /\ IF is_goal_state(initial_state)
                       THEN /\ result' = <<SearchResult(TRUE, <<>>, 1, 1, <<>>)>>
                            /\ pc' = "returned"
                            /\ UNCHANGED search
                       ELSE /\ stack' = <<1>>
                            /\ closed_set' = {}
                            /\ states_explored' = 0
                            /\ states_generated' = 0
                            /\ deadlocks_detected' = 0
                            /\ duplicate_states' = 0
                            /\ pc' = "loop"
                            /\ UNCHANGED <<open_list, state_costs, result>>
    /\ UNCHANGED <<level, cur, config, animation>>

DFSExhausted ==
    /\ pc = "loop"
    /\ solver = "dfs"
    /\ stack = <<>>
    /\ result' = <<SearchResult(FALSE, <<>>, states_explored, None,
                                <<"No solution exists (stack exhausted)">>)>>
    /\ pc' = "returned"
    /\ UNCHANGED <<level, matrix, arena, cur, config, search, animation>>

DFSTimeout ==
    /\ pc = "loop"
    /\ solver = "dfs"
    /\ stack # <<>>
    /\ result' = <<SearchResult(FALSE, <<>>, states_explored, None, <<"Timeout after max_time s">>)>>
    /\ pc' = "returned"
    /\ UNCHANGED <<level, matrix, arena, cur, config, search, animation>>

DFSStateLimit ==
    /\ pc = "loop"
    /\ solver = "dfs"
    /\ stack # <<>>
    /\ StateLimitReached(states_explored, max_states)
    /\ result' = <<SearchResult(FALSE, <<>>, states_explored, None, <<"State limit reached (max_states)">>)>>
    /\ pc' = "returned"
    /\ UNCHANGED <<level, matrix, arena, cur, config, search, animation>>

DFSSkipClosed_keeps_entry ==
    /\ pc = "loop"
    /\ solver = "dfs"
    /\ stack # <<>>
    /\ ~StateLimitReached(states_explored, max_states)
    /\ get_state_key(arena[stack[Len(stack)]]) \in closed_set
    /\ stack' = stack
    /\ UNCHANGED <<level, matrix, arena, cur, pc, config, open_list, closed_set, state_costs,
                   states_explored, states_generated, deadlocks_detected, duplicate_states,
                   result, animation>>

DFSSkipClosed ==
    /\ pc = "loop"
    /\ solver = "dfs"
    /\ stack # <<>>
    /\ ~StateLimitReached(states_explored, max_states)
    /\ get_state_key(arena[stack[Len(stack)]]) \in closed_set
    /\ stack' = SubSeq(stack, 1, Len(stack) - 1)
    /\ UNCHANGED <<level, matrix, arena, cur, pc, config, open_list, closed_set, state_costs,
                   states_explored, states_generated, deadlocks_detected, duplicate_states,
                   result, animation>>

DFSGoalReached_on_first_pop ==
    /\ pc = "loop"
    /\ solver = "dfs"
    /\ stack # <<>>
    /\ ~StateLimitReached(states_explored, max_states)
    /\ LET current_state == stack[Len(stack)]
       IN  /\ get_state_key(arena[current_state]) \notin closed_set
           /\ stack' = SubSeq(stack, 1, Len(stack) - 1)
           /\ closed_set' = closed_set \cup {get_state_key(arena[current_state])}
           /\ states_explored' = states_explored + 1
           /\ result' = <<SearchResult(TRUE, get_solution_path(arena, current_state),
                                       states_explored + 1, current_state, <<>>)>>
           /\ pc' = "returned"
    /\ UNCHANGED <<level, matrix, arena, cur, config, open_list, state_costs,
                   states_generated, deadlocks_detected, duplicate_states, animation>>

DFSGoalReached_detailed_solution ==
    /\ pc = "loop"
    /\ solver = "dfs"
    /\ stack # <<>>
    /\ ~StateLimitReached(states_explored, max_states)
    /\ LET current_state == stack[Len(stack)]
       IN  /\ get_state_key(arena[current_state]) \notin closed_set
           /\ is_goal_state(arena[current_state])
           /\ stack' = SubSeq(stack, 1, Len(stack) - 1)
           /\ closed_set' = closed_set \cup {get_state_key(arena[current_state])}
           /\ states_explored' = states_explored + 1
           /\ result' = <<SearchResult(TRUE, get_detailed_solution_moves(matrix, arena, current_state),
                                       states_explored + 1, current_state, <<>>)>>
           /\ pc' = "returned"
    /\ UNCHANGED <<level, matrix, arena, cur, config, open_list, state_costs,
                   states_generated, deadlocks_detected, duplicate_states, animation>>

DFSGoalReached ==
    /\ pc = "loop"
    /\ solver = "dfs"
    /\ stack # <<>>
    /\ ~StateLimitReached(states_explored, max_states)
    /\ LET current_state == stack[Len(stack)]
       IN  /\ get_state_key(arena[current_state]) \notin closed_set
           /\ is_goal_state(arena[current_state])
           /\ stack' = SubSeq(stack, 1, Len(stack) - 1)
           /\ closed_set' = closed_set \cup {get_state_key(arena[current_state])}
           /\ states_explored' = states_explored + 1
           /\ result' = <<SearchResult(TRUE, get_solution_path(arena, current_state),
                                       states_explored + 1, current_state, <<>>)>>
           /\ pc' = "returned"
    /\ UNCHANGED <<level, matrix, arena, cur, config, open_list, state_costs,
                   states_generated, deadlocks_detected, duplicate_states, animation>>

\* The for loop of DFS over successors[k..].
RECURSIVE DFSSuccessors(_, _, _, _, _, _)
RECURSIVE DFSSuccessors_break_on_deadlock(_, _, _, _, _, _)
RECURSIVE DFSSuccessors_no_closed_test(_, _, _, _, _, _)
DFSSuccessors_no_closed_test(m, successors, k, prune, closed, acc) ==
    IF k > Len(successors) THEN acc
    ELSE LET generated == acc.states_generated + 1
         IN  IF prune /\ detect_deadlock(m, successors[k])
             THEN DFSSuccessors_no_closed_test(m, successors, k + 1, prune, closed,
                    [acc EXCEPT !.states_generated = generated,
                                !.deadlocks_detected = @ + 1])
             ELSE DFSSuccessors_no_closed_test(m, successors, k + 1, prune, closed,
                    [acc EXCEPT !.states_generated = generated,
                                !.arena = Append(@, successors[k]),
                                !.stack = Append(@, Len(acc.arena) + 1)])

RECURSIVE DFSSuccessors_skips_pending(_, _, _, _, _, _)
DFSSuccessors_skips_pending(m, successors, k, prune, closed, acc) ==
    IF k > Len(successors) THEN acc
    ELSE LET generated == acc.states_generated + 1
             successor_key == get_state_key(successors[k])
             pending == {get_state_key(acc.arena[acc.stack[i]]) : i \in 1..Len(acc.stack)}
         IN  IF prune /\ detect_deadlock(m, successors[k])
             THEN DFSSuccessors_skips_pending(m, successors, k + 1, prune, closed,
                    [acc EXCEPT !.states_generated = generated,
                                !.deadlocks_detected = @ + 1])
             ELSE IF successor_key \in closed \cup pending
             THEN DFSSuccessors_skips_pending(m, successors, k + 1, prune, closed,
                    [acc EXCEPT !.states_generated = generated,
                                !.duplicate_states = @ + 1])
             ELSE DFSSuccessors_skips_pending(m, successors, k + 1, prune, closed,
                    [acc EXCEPT !.states_generated = generated,
                                !.arena = Append(@, successors[k]),
                                !.stack = Append(@, Len(acc.arena) + 1)])

DFSSuccessors_break_on_deadlock(m, successors, k, prune, closed, acc) ==
    IF k > Len(successors) THEN acc
    ELSE LET generated == acc.states_generated + 1
             successor_key == get_state_key(successors[k])
         IN  IF prune /\ detect_deadlock(m, successors[k])
             THEN [acc EXCEPT !.states_generated = generated,
                              !.deadlocks_detected = @ + 1]
             ELSE IF successor_key \in closed
             THEN DFSSuccessors_break_on_deadlock(m, successors, k + 1, prune, closed,
                    [acc EXCEPT !.states_generated = generated,
                                !.duplicate_states = @ + 1])
             ELSE DFSSuccessors_break_on_deadlock(m, successors, k + 1, prune, closed,
                    [acc EXCEPT !.states_generated = generated,
                                !.arena = Append(@, successors[k]),
                                !.stack = Append(@, Len(acc.arena) + 1)])

DFSSuccessors(m, successors, k, prune, closed, acc) ==
    IF k > Len(successors) THEN acc
    ELSE LET generated == acc.states_generated + 1
             successor_key == get_state_key(successors[k])
         IN  IF prune /\ detect_deadlock(m, successors[k])
             THEN DFSSuccessors(m, successors, k + 1, prune, closed,
                    [acc EXCEPT !.states_generated = generated,
                                !.deadlocks_detected = @ + 1])
             ELSE IF successor_key \in closed
             THEN DFSSuccessors(m, successors, k + 1, prune, closed,
                    [acc EXCEPT !.states_generated = generated,
                                !.duplicate_states = @ + 1])
             ELSE DFSSuccessors(m, successors, k + 1, prune, closed,
                    [acc EXCEPT !.states_generated = generated,
                                !.arena = Append(@, successors[k]),
                                !.stack = Append(@, Len(acc.arena) + 1)])

DFSExpand_pushes_in_place ==
    /\ pc = "loop"
    /\ solver = "dfs"
    /\ stack # <<>>
    /\ ~StateLimitReached(states_explored, max_states)
    /\ LET current_state == stack[Len(stack)]
           closed == closed_set \cup {get_state_key(arena[current_state])}
       IN  /\ get_state_key(arena[current_state]) \notin closed_set
           /\ ~is_goal_state(arena[current_state])
           /\ \E order \in Orders(arena[current_state].box_positions) :
                \E successors \in {get_successor_states(matrix, arena[current_state], current_state, order)} :
                \E acc \in {DFSSuccessors(matrix, successors, 1, use_deadlock_detection, closed,
                                [arena |-> arena,
                                 stack |-> SubSeq(stack, 1, Len(stack) - 1),
                                 states_generated |-> states_generated,
                                 deadlocks_detected |-> deadlocks_detected,
                                 duplicate_states |-> duplicate_states])} :
                    /\ arena' = [acc.arena EXCEPT ![current_state].box_positions =
                                    IF Len(successors) > 0 THEN successors[1].box_positions ELSE @]
                    /\ stack' = acc.stack
                    /\ states_generated' = acc.states_generated
                    /\ deadlocks_detected' = acc.deadlocks_detected
                    /\ duplicate_states' = acc.duplicate_states
           /\ closed_set' = closed
           /\ states_explored' = states_explored + 1
    /\ UNCHANGED <<level, matrix, cur, pc, config, open_list, state_costs, result, animation>>

DFSExpand ==
    /\ pc = "loop"
    /\ solver = "dfs"
    /\ stack # <<>>
    /\ ~StateLimitReached(states_explored, max_states)
    /\ LET current_state == stack[Len(stack)]
           closed == closed_set \cup {get_state_key(arena[current_state])}
       IN  /\ get_state_key(arena[current_state]) \notin closed_set
           /\ ~is_goal_state(arena[current_state])
           /\ \E order \in Orders(arena[current_state].box_positions) :
                \E successors \in {get_successor_states(matrix, arena[current_state], current_state, order)} :
                \E acc \in {DFSSuccessors(matrix, successors, 1, use_deadlock_detection, closed,
                                [arena |-> arena,
                                 stack |-> SubSeq(stack, 1, Len(stack) - 1),
                                 states_generated |-> states_generated,
                                 deadlocks_detected |-> deadlocks_detected,
                                 duplicate_states |-> duplicate_states])} :
                    /\ arena' = acc.arena
                    /\ stack' = acc.stack
                    /\ states_generated' = acc.states_generated
                    /\ deadlocks_detected' = acc.deadlocks_detected
                    /\ duplicate_states' = acc.duplicate_states
           /\ closed_set' = closed
           /\ states_explored' = states_explored + 1
    /\ UNCHANGED <<level, matrix, cur, pc, config, open_list, state_costs, result, animation>>

AnimateStart_unlinks_final_state ==
    /\ pc = "returned"
    /\ result[1].success
    /\ result[1].final_state # None
    /\ animation' = [moves |-> get_detailed_solution_moves(matrix, arena, result[1].final_state),
                     index |-> 0,
                     state |-> create_initial_state(level).state]
    /\ arena' = [arena EXCEPT ![result[1].final_state].parent = None]
    /\ pc' = "animate"
    /\ UNCHANGED <<level, matrix, cur, config, search, result>>

\* print_solution_animation(result, detailed = True, initial_matrix = level):
\* the detailed moves of the final state and a fresh initial state.
AnimateStart ==
    /\ pc = "returned"
    /\ result[1].success
    /\ result[1].final_state # None
    /\ animation' = [moves |-> get_detailed_solution_moves(matrix, arena, result[1].final_state),
                     index |-> 0,
                     state |-> create_initial_state(level).state]
    /\ pc' = "animate"
    /\ UNCHANGED <<level, matrix, arena, cur, config, search, result>>

\* One round of the replay loop: apply_single_move, break on None.
AnimateStep ==
    /\ pc = "animate"
    /\ animation.index < Len(animation.moves)
    /\ LET new_state == apply_single_move(matrix, animation.state[1],
                                          animation.moves[animation.index + 1])
       IN  IF new_state # <<>>
           THEN /\ animation' = [animation EXCEPT !.index = @ + 1, !.state = new_state]
                /\ pc' = pc
           ELSE /\ animation' = animation
                /\ pc' = "break"
    /\ UNCHANGED <<level, matrix, arena, cur, config, search, result>>

NextSolve ==
    \/ AStarSolvePuzzle
    \/ AStarExhausted
    \/ AStarTimeout
    \/ AStarStateLimit
    \/ AStarSkipClosed
    \/ AStarGoalReached
    \/ AStarExpand
    \/ DFSSolvePuzzle
    \/ DFSExhausted
    \/ DFSTimeout
    \/ DFSStateLimit
    \/ DFSSkipClosed
    \/ DFSGoalReached
    \/ DFSExpand
    \/ AnimateStart
    \/ AnimateStep

SpecSolve == InitSolve /\ [][NextSolve]_vars

-----------------------------------------------------------------------------
(* Single steps: apply_single_move called on a parsed level and on the     *)
(* states it returns, with the labels of the detailed moves and with a     *)
(* string that is no label.                                                *)

\* The levels stepped through: the named ones and the ragged layout with a
\* player and MaxBoxes boxes.
StepLevels ==
    {LevelOnePush, LevelRevisit, LevelReopen, LevelSurplusBox}
    \cup {Render(LayoutRagged, {p}, boxes, {}) :
            <<p, boxes>> \in {t \in FloorCells(LayoutRagged) \X (SUBSET FloorCells(LayoutRagged)) :
                                /\ t[1] \notin t[2]
                                /\ Cardinality(t[2]) = MaxBoxes}}

StepLabels == {"U", "D", "L", "R", "X"}

InitStep ==
    /\ level \in StepLevels
    /\ matrix = create_initial_state(level).clean_matrix
    /\ arena = create_initial_state(level).state
    /\ cur = 1
    /\ pc = "step"
    /\ solver = "none"
    /\ max_states = DefaultMaxStates
    /\ use_deadlock_detection = TRUE
    /\ Idle

\* One call new_state = apply_single_move(state, move): the state becomes the
\* returned one unless None is returned. animation holds the label, the
\* number of calls and the returned value.
SingleStep ==
    /\ pc = "step"
    /\ animation.index < MaxChain - 2
    /\ \E move \in StepLabels :
        \E new_state \in {apply_single_move(matrix, arena[cur], move)} :
            /\ animation' = [moves |-> <<move>>, index |-> animation.index + 1, state |-> new_state]
            /\ IF new_state # <<>>
               THEN /\ arena' = Append(arena, new_state[1])
                    /\ cur' = Len(arena) + 1
               ELSE UNCHANGED <<arena, cur>>
    /\ UNCHANGED <<level, matrix, pc, config, search, result>>

NextStep == SingleStep

SpecStep == InitStep /\ [][NextStep]_vars

-----------------------------------------------------------------------------
(* Properties of the move generator and of the deadlock detector, stated   *)
(* of the state the walk stands on.                                        *)

DirLabels == {"U", "D", "L", "R"}

Delta(label) ==
    CASE label = "U" -> <<0, -1>>
      [] label = "D" -> <<0, 1>>
      [] label = "L" -> <<-1, 0>>
      [] label = "R" -> <<1, 0>>

Plus(pos, label) == <<pos[1] + Delta(label)[1], pos[2] + Delta(label)[2]>>

Minus(pos, label) == <<pos[1] - Delta(label)[1], pos[2] - Delta(label)[2]>>

InsideGrid(m, pos) ==
    \E y \in 1..Len(m) : \E x \in 1..Len(m[y]) : pos = <<x - 1, y - 1>>

\* A push of box b in direction d is legal in s.
LegalPush(m, s, b, d) ==
    /\ InsideGrid(m, Plus(b, d))
    /\ m[Plus(b, d)[2] + 1][Plus(b, d)[1] + 1] # "#"
    /\ Plus(b, d) \notin s.box_positions \ {b}
    /\ Minus(b, d) \in _get_player_reachable_positions(m, s)

HasLegalPush(m, s) == \E b \in s.box_positions : \E d \in DirLabels : LegalPush(m, s, b, d)

\* C1: get_successor_states returns exactly one successor for each pair (box
\* b, direction d) whose push is legal (b+d in the grid, not a wall, not
\* another box, b-d in the player's flood-fill set) and no successor for any
\* other pair, so an empty list when no push is legal.
C1_SuccessorsAreTheLegalPushes ==
    cur # None =>
        \A order \in Orders(arena[cur].box_positions) :
            LET s == arena[cur]
                successors == get_successor_states(matrix, s, cur, order)
                For(b, d) == {k \in 1..Len(successors) :
                                /\ successors[k].player_pos = b
                                /\ successors[k].move_action = d}
            IN  /\ \A b \in s.box_positions : \A d \in DirLabels :
                        Cardinality(For(b, d)) = IF LegalPush(matrix, s, b, d) THEN 1 ELSE 0
                /\ \A k \in 1..Len(successors) :
                        \E b \in s.box_positions : \E d \in DirLabels : k \in For(b, d)
                /\ (~HasLegalPush(matrix, s) => successors = <<>>)

\* C1 witness: a state with two boxes in which some pushes are legal and some
\* are not, reached by a push.
C1_Witness ==
    /\ cur > 1
    /\ Cardinality(arena[cur].box_positions) = 2
    /\ \E b \in arena[cur].box_positions : \E d \in DirLabels :
            /\ LegalPush(matrix, arena[cur], b, d)
            /\ InsideGrid(matrix, Minus(b, d))
    /\ \E b \in arena[cur].box_positions : \E d \in DirLabels :
            /\ InsideGrid(matrix, Plus(b, d))
            /\ ~is_wall(matrix, Plus(b, d)[1], Plus(b, d)[2])
            /\ Plus(b, d) \notin arena[cur].box_positions
            /\ ~is_wall(matrix, Minus(b, d)[1], Minus(b, d)[2])
            /\ Minus(b, d) \notin arena[cur].box_positions
            /\ ~LegalPush(matrix, arena[cur], b, d)

\* C2: the successor c generated from s by the push of box b in direction d
\* has c.boxes = (s.boxes minus {b}) plus {b+d}, so exactly one box position
\* differs, c.player = b, c.goals = s.goals, c.parent = s and c.action = the
\* label of d.
C2_SuccessorFields ==
    cur # None =>
        \A order \in Orders(arena[cur].box_positions) :
            LET s == arena[cur]
                push_moves == _generate_push_moves(matrix, s, order)
                successors == get_successor_states(matrix, s, cur, order)
            IN  /\ Len(successors) = Len(push_moves)
                /\ \A k \in 1..Len(successors) :
                    LET c == successors[k]
                        b == push_moves[k].box_pos
                        d == push_moves[k].direction
                    IN  /\ c.box_positions = (s.box_positions \ {b}) \cup {Plus(b, d)}
                        /\ s.box_positions \ c.box_positions = {b}
                        /\ c.box_positions \ s.box_positions = {Plus(b, d)}
                        /\ c.player_pos = b
                        /\ c.goal_positions = s.goal_positions
                        /\ c.parent = cur
                        /\ c.move_action = d

\* C2 witness: a successor that was generated and stored, whose parent is a
\* state that was itself generated by a push.
C2_Witness ==
    /\ cur > 2
    /\ arena[cur].parent = cur - 1
    /\ arena[cur].player_pos \in arena[cur - 1].box_positions
    /\ arena[cur].move_action # arena[cur - 1].move_action

\* C7: deadlock detection is sound: from a state for which detect_deadlock is
\* true, no sequence of legal pushes reaches a goal state.
C7_DeadlockSound ==
    \A i \in 1..Len(arena) : \A j \in i..Len(arena) :
        detect_deadlock(matrix, arena[i]) => ~is_goal_state(arena[j])

\* C7 witness: the walk made MaxChain - 1 pushes from a state flagged as
\* deadlocked that has as many boxes as goals.
C7_Witness ==
    /\ Len(arena) = MaxChain
    /\ detect_deadlock(matrix, arena[1])
    /\ Cardinality(arena[1].box_positions) = Cardinality(arena[1].goal_positions)
    /\ Cardinality(arena[1].box_positions) = 2

\* A box has a push direction in which destination and the tile behind are
\* free of walls and of the other boxes of the state.
BoxCanMove(m, s, b) ==
    \E d \in DirLabels :
        /\ ~is_wall(m, Plus(b, d)[1], Plus(b, d)[2])
        /\ Plus(b, d) \notin s.box_positions
        /\ ~is_wall(m, Minus(b, d)[1], Minus(b, d)[2])
        /\ Minus(b, d) \notin s.box_positions

\* A box not on a goal with a wall (or off-grid cell) on one horizontal and
\* on one vertical neighbour.
CornerStuck(m, s, b) ==
    /\ b \notin s.goal_positions
    /\ is_wall(m, b[1] - 1, b[2]) \/ is_wall(m, b[1] + 1, b[2])
    /\ is_wall(m, b[1], b[2] - 1) \/ is_wall(m, b[1], b[2] + 1)

\* C8: freeze rule: a non-goal state with no corner-stuck box is declared
\* deadlocked if and only if no box of the state, on or off a goal, has a
\* push direction in which both the destination tile and the tile behind the
\* box are free of walls and of other boxes (all boxes being obstacles).
C8_FreezeRuleAllBoxes ==
    (/\ cur # None
     /\ ~is_goal_state(arena[cur])
     /\ \A b \in arena[cur].box_positions : ~CornerStuck(matrix, arena[cur], b))
    => (detect_deadlock(matrix, arena[cur])
            <=> \A b \in arena[cur].box_positions : ~BoxCanMove(matrix, arena[cur], b))

\* C9: corner rule: in a non-goal state a box off goal with a wall or off-grid
\* cell on one horizontal and one vertical neighbour makes detect_deadlock
\* true; a box on a goal tile never triggers the corner rule.
C9_CornerRule ==
    cur # None =>
        /\ (/\ ~is_goal_state(arena[cur])
            /\ \E b \in arena[cur].box_positions : CornerStuck(matrix, arena[cur], b))
           => detect_deadlock(matrix, arena[cur])
        /\ \A b \in arena[cur].box_positions \cap arena[cur].goal_positions :
                ~_is_simple_deadlock(matrix, arena[cur], b)

\* C9 witness: a push put a box off goal into a corner while another box sits
\* in a corner on its goal; the state is flagged.
C9_Witness ==
    /\ cur > 1
    /\ ~is_goal_state(arena[cur])
    /\ ~CornerStuck(matrix, arena[cur - 1], arena[cur].player_pos)
    /\ \E b \in arena[cur].box_positions \ arena[cur - 1].box_positions :
            CornerStuck(matrix, arena[cur], b)
    /\ \E b \in arena[cur].box_positions \cap arena[cur].goal_positions :
            /\ is_wall(matrix, b[1] - 1, b[2]) \/ is_wall(matrix, b[1] + 1, b[2])
            /\ is_wall(matrix, b[1], b[2] - 1) \/ is_wall(matrix, b[1], b[2] + 1)
    /\ detect_deadlock(matrix, arena[cur])

\* C10: a state with boxes == goals is never classified as deadlocked, even
\* when boxes sit in corners or no box can move.
C10_GoalNeverDeadlocked ==
    \A i \in 1..Len(arena) : is_goal_state(arena[i]) => ~detect_deadlock(matrix, arena[i])

\* C10 witness: a goal state reached by a push, all of whose boxes sit in
\* corners and none of which can move.
C10_Witness ==
    /\ cur > 1
    /\ is_goal_state(arena[cur])
    /\ arena[cur].box_positions # {}
    /\ \A b \in arena[cur].box_positions :
            /\ is_wall(matrix, b[1] - 1, b[2]) \/ is_wall(matrix, b[1] + 1, b[2])
            /\ is_wall(matrix, b[1], b[2] - 1) \/ is_wall(matrix, b[1], b[2] + 1)
            /\ ~BoxCanMove(matrix, arena[cur], b)
    /\ ~detect_deadlock(matrix, arena[cur])

\* A solve call with the default state limit, which no level of SolveLevels
\* reaches, next to the small one.
InitSolveUnlimited ==
    /\ level \in SolveLevels
    /\ matrix = <<>>
    /\ arena = <<>>
    /\ cur = None
    /\ pc = "call"
    /\ solver \in {"astar", "dfs"}
    /\ max_states \in {MaxStatesSmall, DefaultMaxStates}
    /\ use_deadlock_detection \in BOOLEAN
    /\ Idle

\* The steps of a solve call that do not depend on the clock.
SearchStep ==
    \/ AStarSolvePuzzle
    \/ AStarExhausted
    \/ AStarStateLimit
    \/ AStarSkipClosed
    \/ AStarGoalReached
    \/ AStarExpand
    \/ DFSSolvePuzzle
    \/ DFSExhausted
    \/ DFSStateLimit
    \/ DFSSkipClosed
    \/ DFSGoalReached
    \/ DFSExpand

\* A running solve call takes its next step; the clock need never pass
\* max_time.
SpecSolveFair == InitSolveUnlimited /\ [][NextSolve]_vars /\ WF_vars(SearchStep)

-----------------------------------------------------------------------------
(* Properties of the search drivers and of the replay.                     *)

\* The state keys one legal push away from key.
PushedKeys(m, goals, key) ==
    LET s == State(key[1], key[2], goals)
        order == CHOOSE o \in Orders(key[2]) : TRUE
        successors == get_successor_states(m, s, None, order)
    IN  {get_state_key(successors[i]) : i \in 1..Len(successors)}

RECURSIVE PushClosure(_, _, _, _)
PushClosure(m, goals, frontier, seen) ==
    LET new == (UNION {PushedKeys(m, goals, key) : key \in frontier}) \ seen
    IN  IF new = {} THEN seen ELSE PushClosure(m, goals, new, seen \cup new)

\* Some goal state is reachable from s by a sequence of legal pushes.
GoalReachable(m, s) ==
    \E key \in PushClosure(m, s.goal_positions, {get_state_key(s)}, {get_state_key(s)}) :
        key[2] = s.goal_positions

Returned == pc \in {"returned", "animate", "break"}

BoundTripped ==
    /\ result # <<>>
    /\ result[1].error_message \in {<<"Timeout after max_time s">>, <<"State limit reached (max_states)">>}

Solved ==
    /\ result # <<>>
    /\ result[1].success
    /\ result[1].final_state # None
    /\ is_goal_state(arena[result[1].final_state])

\* C3: replaying the detailed move sequence of the terminal state of a search
\* from the initial state, one apply_single_move at a time, never hits an
\* invalid step and ends in the player position and box set of the terminal
\* state.
C3_ReplayRoundTrip ==
    /\ pc # "break"
    /\ (pc = "animate" /\ animation.index = Len(animation.moves)) =>
            /\ animation.state[1].player_pos = arena[result[1].final_state].player_pos
            /\ animation.state[1].box_positions = arena[result[1].final_state].box_positions

\* C3 witness: a replay that ran to its end over a solution of at least two
\* pushes with positioning steps between them.
C3_Witness ==
    /\ pc = "animate"
    /\ animation.index = Len(animation.moves)
    /\ Len(result[1].solution) >= 2
    /\ Len(animation.moves) > Len(get_solution_moves(arena, result[1].final_state)) + 1
    /\ animation.state[1].box_positions = arena[result[1].final_state].goal_positions

\* C4: on the 5x5 level with one box one tile from its goal and the player
\* behind the box, A* and DFS both return success with a solution of exactly
\* one push label, and the detailed solution is as long as the push-only one.
C4_OnePushScenario ==
    (/\ level = LevelOnePush
     /\ pc = "returned"
     /\ ~BoundTripped)
    => /\ result[1].success
       /\ Len(result[1].solution) = 1
       /\ result[1].final_state # None
       /\ Len(get_detailed_solution_moves(matrix, arena, result[1].final_state))
            = Len(get_solution_moves(arena, result[1].final_state))

\* C5: A* completeness within bounds: when a goal state is reachable from the
\* initial state by legal pushes and neither bound trips, solve_puzzle of A*
\* ends Solved (success, final_state a goal state), detection on or off.
C5_AStarComplete ==
    (/\ solver = "astar"
     /\ pc = "returned"
     /\ arena # <<>>
     /\ ~BoundTripped)
    => (Solved \/ ~GoalReachable(matrix, arena[1]))

\* C6: DFS completeness within bounds: when a goal state is reachable from
\* the initial state by legal pushes and neither bound trips, solve_puzzle of
\* DFS ends Solved; it reports 'No solution exists (stack exhausted)' only
\* when no goal state is reachable; with deadlock detection on or off.
C6_DFSComplete ==
    (/\ solver = "dfs"
     /\ pc = "returned"
     /\ arena # <<>>
     /\ ~BoundTripped)
    => /\ (Solved \/ ~GoalReachable(matrix, arena[1]))
       /\ (result[1].error_message = <<"No solution exists (stack exhausted)">>
            => ~GoalReachable(matrix, arena[1]))

\* C6 witness: with detection on, DFS returned Solved after at least two
\* pushes, having dropped deadlocked successors on the way.
C6_Witness ==
    /\ solver = "dfs"
    /\ pc = "returned"
    /\ use_deadlock_detection
    /\ Solved
    /\ Len(result[1].solution) >= 2
    /\ deadlocks_detected > 0

-----------------------------------------------------------------------------
(* Properties of the heuristic and of the state invariants.                *)

\* C11: for every state built by create_initial_state and every state reached
\* from it by pushes, our_heuristic returns 0 if and only if the state is a
\* goal state, and a positive integer otherwise.
C11_HeuristicZeroIffGoal ==
    cur # None =>
        \A h \in HeuristicValues(matrix, arena[cur]) :
            /\ (h = 0) <=> is_goal_state(arena[cur])
            /\ (~is_goal_state(arena[cur]) => h > 0)

\* C19: in every state built by create_initial_state from a grid with a
\* player, and in every state reached from it by pushes, the box set and the
\* goal set have the same number of elements.
C19_BoxesAndGoalsEqualCardinality ==
    cur # None =>
        Cardinality(arena[cur].box_positions) = Cardinality(arena[cur].goal_positions)

\* C20: along any sequence of pushes from an initial state, every state has
\* as many boxes as the initial state, no box on a wall or off the grid, and
\* the player on a non-wall cell of the grid that holds no box.
C20_BoxesConserved ==
    \A i \in 1..Len(arena) :
        /\ Cardinality(arena[i].box_positions) = Cardinality(arena[1].box_positions)
        /\ \A b \in arena[i].box_positions :
                InsideGrid(matrix, b) /\ ~is_wall(matrix, b[1], b[2])
        /\ InsideGrid(matrix, arena[i].player_pos)
        /\ ~is_wall(matrix, arena[i].player_pos[1], arena[i].player_pos[2])
        /\ arena[i].player_pos \notin arena[i].box_positions

\* C20 witness: a chain of three pushes of a two-box level in which both
\* boxes have moved and one box now stands next to the other.
C20_Witness ==
    /\ Len(arena) = 4
    /\ Cardinality(arena[1].box_positions) = 2
    /\ arena[4].box_positions \cap arena[1].box_positions = {}
    /\ \E b \in arena[4].box_positions : \E d \in DirLabels :
            Plus(b, d) \in arena[4].box_positions

-----------------------------------------------------------------------------
(* Properties of the outcomes of a solve call.                             *)

\* C12: when the initial state is already a goal state, both drivers return
\* success with an empty solution, states_explored == 1 and final_state the
\* initial state, without generating any successor.
C12_InitialGoal ==
    (/\ Returned
     /\ arena # <<>>
     /\ is_goal_state(arena[1]))
    => /\ result[1].success
       /\ result[1].solution = <<>>
       /\ result[1].states_explored = 1
       /\ result[1].final_state = 1
       /\ result[1].error_message = <<>>
       /\ Len(arena) = 1
       /\ states_generated = 0
       /\ open_list = {}
       /\ stack = <<>>

\* C12 witness: A* has returned on a level with one box that stands on the
\* one goal and the player next to it.
C12_Witness ==
    /\ pc = "returned"
    /\ solver = "astar"
    /\ arena # <<>>
    /\ is_goal_state(arena[1])
    /\ Cardinality(arena[1].box_positions) = 1
    /\ \E b \in arena[1].box_positions : \E d \in DirLabels : Plus(b, d) = arena[1].player_pos
    /\ result[1].success

\* C13: in both drivers a tripped state-count or time bound gives an
\* unsuccessful result with a non-empty reason ('State limit reached' or
\* 'Timeout'); the bounds are tested once at the head of each loop round, so
\* a round that explores a state starts below the limit, and the reported
\* states_explored never exceeds max_states.
C13_BoundsGiveExhausted ==
    /\ states_explored <= max_states
    /\ Returned =>
        /\ result[1].states_explored <= max_states
        /\ BoundTripped =>
            /\ ~result[1].success
            /\ result[1].error_message # <<>>
            /\ result[1].solution = <<>>
            /\ result[1].final_state = None
            /\ result[1].states_explored = states_explored
        /\ result[1].error_message = <<"State limit reached (max_states)">>
            => result[1].states_explored = max_states

\* C13 witness: a driver returned the state-limit result after exploring
\* MaxStatesLarge states.
C13_Witness ==
    /\ pc = "returned"
    /\ max_states = MaxStatesLarge
    /\ result[1].error_message = <<"State limit reached (max_states)">>
    /\ result[1].states_explored = MaxStatesLarge

ExhaustedReasons ==
    {<<"Timeout after max_time s">>,
     <<"State limit reached (max_states)">>,
     <<"No solution exists (open list exhausted)">>,
     <<"No solution exists (stack exhausted)">>}

FailedReasons ==
    {<<"Error during solving: No player position found in the level">>,
     <<"Error during solving: 'MoveGenerator' object has no attribute 'get_detailed_solution_moves'">>}

OutcomeSolved == result[1].success /\ result[1].error_message = <<>>

OutcomeExhausted == ~result[1].success /\ result[1].error_message \in ExhaustedReasons

OutcomeFailed == ~result[1].success /\ result[1].error_message \in FailedReasons

\* C14: every solve call of either driver eventually reaches exactly one
\* terminal outcome (Solved, Exhausted or Failed), also when neither the time
\* bound nor the state bound trips, and after that outcome nothing is popped,
\* expanded or inserted any more.
C14_Terminates ==
    /\ <>Returned
    /\ [](Returned =>
            Cardinality({o \in {"Solved", "Exhausted", "Failed"} :
                            \/ (o = "Solved" /\ OutcomeSolved)
                            \/ (o = "Exhausted" /\ OutcomeExhausted)
                            \/ (o = "Failed" /\ OutcomeFailed)}) = 1)
    /\ [][Returned => (Returned' /\ UNCHANGED <<arena, search, result>>)]_vars

\* C14 witness: with the default state limit a driver ran until its frontier
\* was empty, after exploring more states than MaxStatesLarge and skipping
\* popped entries.
C14_Witness ==
    /\ pc = "returned"
    /\ max_states = DefaultMaxStates
    /\ result[1].error_message \in {<<"No solution exists (open list exhausted)">>,
                                     <<"No solution exists (stack exhausted)">>}
    /\ result[1].states_explored > MaxStatesLarge

\* C15: the Failed outcome ('Error during solving: ...') is produced only by
\* an exception raised during setup, that is, when no state could be built
\* from the level; once the search loop has started the outcome is Solved or
\* Exhausted.
C15_FailedOnlyDuringSetup ==
    (Returned /\ OutcomeFailed) =>
        /\ ~create_initial_state(level).ok
        /\ arena = <<>>

NoPlayer(raw) == CellsWith(raw, {"@", "+"}) = {}

\* C16: for a raw grid with neither '@' nor '+' create_initial_state raises
\* and returns no state; the solve entry points return an unsuccessful result
\* with an error reason, no final_state, an empty solution and
\* states_explored == 0, and the search loop is never entered.
C16_MissingPlayer ==
    NoPlayer(level) =>
        /\ ~create_initial_state(level).ok
        /\ create_initial_state(level).state = <<>>
        /\ pc \in {"call", "returned"}
        /\ arena = <<>>
        /\ open_list = {} /\ stack = <<>> /\ closed_set = {}
        /\ states_explored = 0 /\ states_generated = 0
        /\ pc = "returned" =>
            /\ ~result[1].success
            /\ result[1].error_message =
                    <<"Error during solving: No player position found in the level">>
            /\ result[1].final_state = None
            /\ result[1].solution = <<>>
            /\ result[1].states_explored = 0

\* C16 witness: a solve call has returned on a level with a box and a goal
\* but no player.
C16_Witness ==
    /\ pc = "returned"
    /\ NoPlayer(level)
    /\ CellsWith(level, {"$"}) # {}
    /\ CellsWith(level, {"."}) # {}
    /\ result # <<>>

\* C17: for every raw grid and every bound setting the solve entry points
\* return a result object and never propagate an exception; a successful
\* result carries no error message, an unsuccessful one a non-empty message.
C17_AlwaysAResult ==
    /\ pc \in {"call", "loop", "returned", "animate", "break"}
    /\ pc \in {"call", "loop"} => result = <<>>
    /\ Returned =>
        /\ Len(result) = 1
        /\ result[1].success => result[1].error_message = <<>>
        /\ ~result[1].success =>
            /\ Len(result[1].error_message) = 1
            /\ result[1].error_message[1] # ""

\* C17 witness: an exception raised inside the search loop, after states
\* were explored, came back as an unsuccessful result with a message.
C17_Witness ==
    /\ pc = "returned"
    /\ closed_set # {}
    /\ states_generated > 0
    /\ ~result[1].success
    /\ result[1].error_message \in FailedReasons

\* C18: given two adjacent states of a parent chain between which no box
\* position changed, _calculate_player_path_for_push signals an error and
\* does not return the push label alone as a fallback step.
C18_NoSilentFallback ==
    cur # None =>
        \A d \in DirLabels : \A p \in FloorCells(matrix) \ arena[cur].box_positions :
            _calculate_player_path_for_push(matrix, arena[cur],
                    [arena[cur] EXCEPT !.player_pos = p, !.parent = cur, !.move_action = d], d)
                # <<d>>

-----------------------------------------------------------------------------
(* Properties of state identity, path reconstruction and level parsing.    *)

RECURSIVE Ancestry(_, _)
Ancestry(ar, ref) ==
    IF ar[ref].parent = None THEN <<ref>> ELSE Append(Ancestry(ar, ar[ref].parent), ref)

\* C22: the push-only path get_solution_path returns for a state has exactly
\* one direction label per parent link between the state and the root, in
\* root-to-state order, and its length is the number of box-position changes
\* along the ancestry chain.
C22_PushPathFollowsParentLinks ==
    \A i \in 1..Len(arena) :
        LET chain == Ancestry(arena, i)
            path == get_solution_path(arena, i)
        IN  /\ Len(path) = Len(chain) - 1
            /\ \A k \in 1..Len(path) :
                    /\ path[k] \in DirLabels
                    /\ path[k] = arena[chain[k + 1]].move_action
            /\ Len(path) = Cardinality({k \in 1..(Len(chain) - 1) :
                    arena[chain[k]].box_positions # arena[chain[k + 1]].box_positions})

\* C22 witness: DFS returned a final state three or more pushes below the
\* root whose path starts and ends with different labels.
C22_Witness ==
    /\ pc = "returned"
    /\ solver = "dfs"
    /\ result[1].success
    /\ Len(Ancestry(arena, result[1].final_state)) >= 4
    /\ result[1].solution = get_solution_path(arena, result[1].final_state)
    /\ result[1].solution[1] # result[1].solution[Len(result[1].solution)]

C24_ParsedLevel ==
    /\ Len(matrix) = Len(level)
    /\ \A r \in 1..Len(level) :
        /\ Len(matrix[r]) = Len(level[r])
        /\ \A c \in 1..Len(level[r]) :
            /\ matrix[r][c] = (IF level[r][c] \in {"@", "+", "$", "*", "."}
                               THEN " " ELSE level[r][c])
            /\ (matrix[r][c] = "#") <=> (level[r][c] = "#")
            /\ arena # <<>> =>
                /\ (<<c - 1, r - 1>> \in arena[1].box_positions) <=> (level[r][c] \in {"$", "*"})
                /\ (<<c - 1, r - 1>> \in arena[1].goal_positions) <=> (level[r][c] \in {".", "*", "+"})
                /\ (<<c - 1, r - 1>> = arena[1].player_pos) <=> (level[r][c] \in {"@", "+"})
    /\ arena # <<>> =>
        \A p \in arena[1].box_positions \cup arena[1].goal_positions \cup {arena[1].player_pos} :
            /\ p[2] + 1 \in 1..Len(level)
            /\ p[1] + 1 \in 1..Len(level[p[2] + 1])

\* C24 witness: a level parsed into a state that holds a box on a goal, a
\* box off goal, the player on a goal and a wall.
C24_Witness ==
    /\ arena # <<>>
    /\ \E b \in arena[1].box_positions : level[b[2] + 1][b[1] + 1] = "*"
    /\ \E b \in arena[1].box_positions : level[b[2] + 1][b[1] + 1] = "$"
    /\ level[arena[1].player_pos[2] + 1][arena[1].player_pos[1] + 1] = "+"
    /\ \E r \in 1..Len(matrix) : \E c \in 1..Len(matrix[r]) : matrix[r][c] = "#"

-----------------------------------------------------------------------------
(* Properties of the wall lookups. *)

\* Coordinates around the grid of the level, one cell beyond its extent and
\* that of its longest row on every side.
NearbyCoordinates ==
    {<<x, y>> : x \in -1..5, y \in -1..(Len(matrix) + 1)}

EmptyCache == [p \in {} |-> TRUE]

\* C25: State.is_wall, the detector's lookup and the box-position test treat
\* every coordinate outside the grid (negative, past the last row, past the
\* end of a shorter row) as a wall and agree with the grid inside it, and on
\* a detector that runs the corner tests of the off-goal boxes of a state in
\* any order, every answer of the memoised lookup, stored or fresh, is the
\* answer of State.is_wall.
C25_WallLookups ==
    /\ \A pos \in NearbyCoordinates :
        /\ is_wall(matrix, pos[1], pos[2]) =
              (IF InsideGrid(matrix, pos) THEN matrix[pos[2] + 1][pos[1] + 1] = "#" ELSE TRUE)
        /\ _is_wall(matrix, pos[1], pos[2]) = is_wall(matrix, pos[1], pos[2])
        /\ _is_wall_cached(matrix, EmptyCache, pos[1], pos[2]).value = is_wall(matrix, pos[1], pos[2])
        /\ (cur # None /\ ~InsideGrid(matrix, pos)) => ~_is_valid_box_position(matrix, arena[cur], pos)
    /\ cur # None =>
        \A order \in Orders(get_boxes_not_on_goals(arena[cur])) :
            LET run == DetectorLookups(matrix, order, 1,
                            [walls_cache |-> EmptyCache, log |-> <<>>, any |-> FALSE])
            IN  /\ \A k \in 1..Len(run.log) :
                        run.log[k][2] = is_wall(matrix, run.log[k][1][1], run.log[k][1][2])
                /\ \A pos \in DOMAIN run.walls_cache :
                        run.walls_cache[pos] = is_wall(matrix, pos[1], pos[2])
                /\ Len(order) > 0 =>
                        run.any = _is_simple_deadlock(matrix, arena[cur], order[Len(order)])

\* C25 witness: a state reached by a push on the ragged grid on which the
\* lookups of one detector include a stored answer, a negative coordinate, a
\* coordinate past the last row and one past the end of a shorter row.
C25_Witness ==
    /\ cur # None
    /\ Len(arena) >= 2
    /\ \E order \in Orders(get_boxes_not_on_goals(arena[cur])) :
        LET run == DetectorLookups(matrix, order, 1,
                        [walls_cache |-> EmptyCache, log |-> <<>>, any |-> FALSE])
        IN  /\ \E k \in 1..Len(run.log) : run.log[k][3]
            /\ \E k \in 1..Len(run.log) : run.log[k][1][1] < 0 \/ run.log[k][1][2] < 0
            /\ \E k \in 1..Len(run.log) : run.log[k][1][2] >= Len(matrix)
            /\ \E k \in 1..Len(run.log) :
                    /\ run.log[k][1][2] \in 0..(Len(matrix) - 1)
                    /\ run.log[k][1][1] >= Len(matrix[run.log[k][1][2] + 1])
                    /\ \E r \in 1..Len(matrix) : run.log[k][1][1] < Len(matrix[r])
            /\ \E k \in 1..Len(run.log) : ~run.log[k][2]

-----------------------------------------------------------------------------
(* Properties of the search loops. *)

\* C26: every pop of A* removes exactly one entry of the open list, and of
\* the entries that were in the open list that entry has the lowest f and,
\* among those of the same f, refers to the state generated first.
C26_PopOrder ==
    [][ (solver = "astar" /\ pc = "loop" /\ open_list \ open_list' # {})
        => \E e \in open_list \ open_list' :
             /\ open_list \ open_list' = {e}
             /\ e[1] = arena[e[3]].f_cost
             /\ \A o \in open_list \ {e} :
                  \/ e[1] < o[1]
                  \/ (e[1] = o[1] /\ e[3] < o[3]) ]_vars

\* C26 witness: after two or more expansions the open list holds two entries
\* of the lowest f and an entry of a higher f.
C26_Witness ==
    /\ solver = "astar"
    /\ pc = "loop"
    /\ states_explored >= 2
    /\ \E e, o, w \in open_list :
        /\ e # o
        /\ e[1] = o[1]
        /\ e[1] < w[1]
        /\ \A q \in open_list : e[1] <= q[1]

\* The entries a step of either driver takes from its collection: the entry
\* removed from the open list, or the top of the stack when the stack changes.
Popped ==
    IF solver = "astar" THEN {e[3] : e \in open_list \ open_list'}
    ELSE IF solver = "dfs" /\ stack' # stack THEN {stack[Len(stack)]}
    ELSE {}

\* C27: in both drivers, at every evaluation of the loop head states_explored
\* is the size of the closed set; a step that pops an entry whose key is
\* closed changes nothing but the collection, from which it removes that
\* entry; a step that pops an entry whose key is not closed adds exactly that
\* key to the closed set and one to states_explored; the closed set never
\* loses a key, so no key is closed or expanded twice.
C27_ClosedOnce ==
    /\ [](pc = "loop" => states_explored = Cardinality(closed_set))
    /\ [][ pc = "loop" =>
            /\ closed_set \subseteq closed_set'
            /\ Cardinality(Popped) <= 1
            /\ Popped = {} => (closed_set' = closed_set /\ states_explored' = states_explored)
            /\ \A ref \in Popped :
                IF get_state_key(arena[ref]) \in closed_set
                THEN /\ UNCHANGED <<arena, closed_set, state_costs, states_explored,
                                    states_generated, deadlocks_detected, duplicate_states,
                                    result, pc>>
                     /\ open_list' \subseteq open_list
                     /\ stack' = SubSeq(stack, 1, Len(stack) - 1) \/ solver = "astar"
                ELSE /\ closed_set' = closed_set \cup {get_state_key(arena[ref])}
                     /\ states_explored' = states_explored + 1 ]_vars

\* C27 witness: DFS stands at the loop head after more pops than explored
\* states: an entry with a closed key has been discarded.
C27_Witness ==
    /\ solver = "dfs"
    /\ pc = "loop"
    /\ states_explored >= 2
    /\ Len(arena) - Len(stack) > states_explored
    /\ states_explored = Cardinality(closed_set)

\* C28: in A*, at the end of every expansion the successors generated so far
\* are the ones dropped as deadlocked, the ones counted as duplicates and the
\* ones inserted into the open list.
C28_GeneratedAccounted ==
    (solver = "astar" /\ pc = "loop")
        => states_generated = deadlocks_detected + duplicate_states + (Len(arena) - 1)

\* C29: in A*, every state the search has created carries as g the number
\* of parent links between it and the root, the root has g = 0 and no
\* parent, f = g + h with h a value the heuristic gives for the state, and
\* every entry of the open list carries the f of the state it refers to.
C29_UniformCost ==
    solver = "astar" =>
        /\ \A i \in 1..Len(arena) :
            /\ arena[i].g_cost = Len(Ancestry(arena, i)) - 1
            /\ arena[i].parent = None <=> i = 1
            /\ arena[i].parent # None => arena[i].g_cost = arena[arena[i].parent].g_cost + 1
            /\ pc # "call" => /\ arena[i].f_cost = arena[i].g_cost + arena[i].h_cost
                              /\ arena[i].h_cost \in HeuristicValues(matrix, arena[i])
        /\ arena # <<>> => arena[1].g_cost = 0
        /\ \A e \in open_list :
            /\ e[3] \in 1..Len(arena)
            /\ e[1] = arena[e[3]].f_cost
            /\ e[1] = (Len(Ancestry(arena, e[3])) - 1) + arena[e[3]].h_cost

\* C29 witness: the open list of A* holds a state three pushes below the
\* root with a positive heuristic value.
C29_Witness ==
    /\ solver = "astar"
    /\ pc = "loop"
    /\ \E e \in open_list :
        /\ Len(Ancestry(arena, e[3])) = 4
        /\ arena[e[3]].g_cost = 3
        /\ arena[e[3]].h_cost > 0
        /\ e[1] = 3 + arena[e[3]].h_cost

\* C30: DFS takes the entry pushed last: every pop removes the end of the
\* stack, which refers to the state created latest of those on the stack,
\* and leaves the rest in place. An expansion then appends, in generation
\* order, exactly the successors that are not dropped as deadlocked and
\* whose key is not in the closed set, the key of the expanded state
\* included, whatever is pending on the stack; it adds the number of
\* successors to states_generated and the number of those with a closed key
\* to duplicate_states.
C30_DepthFirst ==
    [][ (solver = "dfs" /\ pc = "loop" /\ stack' # stack) =>
        LET top == stack[Len(stack)]
            rest == SubSeq(stack, 1, Len(stack) - 1)
            closed == closed_set \cup {get_state_key(arena[top])}
            dropped(s) == use_deadlock_detection /\ detect_deadlock(matrix, s)
        IN  /\ \A i \in 1..Len(rest) : rest[i] < top
            /\ Len(stack') >= Len(rest)
            /\ SubSeq(stack', 1, Len(rest)) = rest
            /\ (closed_set' # closed_set /\ pc' = "loop") =>
                \E order \in Orders(arena[top].box_positions) :
                    LET successors == get_successor_states(matrix, arena[top], top, order)
                        kept == SelectSeq(successors,
                                    LAMBDA s : ~dropped(s) /\ get_state_key(s) \notin closed)
                        duplicates == {k \in 1..Len(successors) :
                                          /\ ~dropped(successors[k])
                                          /\ get_state_key(successors[k]) \in closed}
                    IN  /\ arena' = arena \o kept
                        /\ stack' = rest \o [k \in 1..Len(kept) |-> Len(arena) + k]
                        /\ states_generated' = states_generated + Len(successors)
                        /\ duplicate_states' = duplicate_states + Cardinality(duplicates)
                        /\ deadlocks_detected' = deadlocks_detected
                               + Cardinality({k \in 1..Len(successors) : dropped(successors[k])})
            /\ ~(closed_set' # closed_set /\ pc' = "loop") => stack' = rest ]_vars

\* C30 witness: DFS stands at the loop head with two entries of the same key
\* on its stack, after a successor with a closed key was counted as a
\* duplicate.
C30_Witness ==
    /\ solver = "dfs"
    /\ pc = "loop"
    /\ duplicate_states > 0
    /\ \E i, j \in 1..Len(stack) :
        /\ i < j
        /\ get_state_key(arena[stack[i]]) = get_state_key(arena[stack[j]])

-----------------------------------------------------------------------------
(* Properties of the parent chains, the flood fill and the detailed path. *)

\* C31: every state either driver has created refers to a parent created
\* before it, so its ancestry chain is finite; the chain starts at the
\* initial state, which is the only state without parent and without
\* action; and no two states of the chain have the same identity key.
C31_ChainsAreSimple ==
    solver \in {"astar", "dfs"} =>
        \A i \in 1..Len(arena) :
            /\ arena[i].parent \in 0..(i - 1)
            /\ (arena[i].parent = None) <=> (i = 1)
            /\ (arena[i].move_action = "None") <=> (i = 1)
            /\ i > 1 => arena[i].move_action \in DirLabels
            /\ LET chain == Ancestry(arena, i)
               IN  /\ chain[1] = 1
                   /\ chain[Len(chain)] = i
                   /\ \A a, b \in 1..Len(chain) :
                        a # b => get_state_key(arena[chain[a]]) # get_state_key(arena[chain[b]])

\* C31 witness: a state four links below the root was popped and closed
\* while another created state off its chain has the key of one of its
\* ancestors.
C31_Witness ==
    /\ pc = "loop"
    /\ \E i \in 1..Len(arena) :
        /\ Len(Ancestry(arena, i)) >= 4
        /\ get_state_key(arena[i]) \in closed_set
        /\ \E j \in 1..Len(arena) :
            /\ \A a \in 1..Len(Ancestry(arena, i)) : Ancestry(arena, i)[a] # j
            /\ \E a \in 1..Len(Ancestry(arena, i)) :
                get_state_key(arena[Ancestry(arena, i)[a]]) = get_state_key(arena[j])

\* The in-grid cells of m that hold neither a wall nor a box of s.
WalkableCells(m, s) ==
    {c \in FloorCells(m) : c \notin s.box_positions}

\* R contains every walkable 4-neighbour of each of its cells.
ClosedUnderSteps(m, s, R) ==
    \A c \in R : \A d \in DirLabels :
        Plus(c, d) \in WalkableCells(m, s) => Plus(c, d) \in R

\* C32: the player-reachable set of a state is the set of cells connected to
\* the player's position by 4-neighbour steps through in-grid cells that are
\* neither wall nor box: it contains the player's position, consists of
\* walkable cells, contains every walkable neighbour of its cells, and no
\* smaller set containing the player's position does.
C32_ReachableIsConnectedComponent ==
    cur # None =>
        LET s == arena[cur]
            R == _get_player_reachable_positions(matrix, s)
        IN  /\ s.player_pos \in R
            /\ R \subseteq WalkableCells(matrix, s)
            /\ \A c \in R : /\ InsideGrid(matrix, c)
                            /\ ~is_wall(matrix, c[1], c[2])
                            /\ c \notin s.box_positions
            /\ ClosedUnderSteps(matrix, s, R)
            /\ \A Q \in SUBSET R :
                (s.player_pos \in Q /\ ClosedUnderSteps(matrix, s, Q)) => Q = R

\* C32 witness: after a push, the player reaches three or more cells while
\* a walkable cell lies beyond reach.
C32_Witness ==
    /\ cur # None
    /\ Len(arena) >= 2
    /\ Cardinality(_get_player_reachable_positions(matrix, arena[cur])) >= 3
    /\ \E c \in WalkableCells(matrix, arena[cur]) :
            c \notin _get_player_reachable_positions(matrix, arena[cur])

\* The cell a walk of single steps from start stands on after k steps.
RECURSIVE PosAfter(_, _, _)
PosAfter(start, walk, k) ==
    IF k = 0 THEN start ELSE Plus(PosAfter(start, walk, k - 1), walk[k])

\* The cells at most n steps from start through walkable cells of s.
RECURSIVE Within(_, _, _, _)
Within(m, s, start, n) ==
    IF n = 0 THEN {start}
    ELSE LET near == Within(m, s, start, n - 1)
         IN  near \cup {c \in WalkableCells(m, s) : \E p \in near : \E d \in DirLabels : c = Plus(p, d)}

\* The segment of the detailed path for the link from the parent of
\* arena[i] to arena[i], and the cell the player pushes from.
Segment(i) ==
    _calculate_player_path_for_push(matrix, arena[arena[i].parent], arena[i], arena[i].move_action)

PushCell(i) == Minus(arena[i].player_pos, arena[i].move_action)

\* C33: for every link of the chain the walk stands on, the segment of the
\* detailed path is a walk of single steps from the parent's player position
\* through cells without wall or box of the parent to the cell behind the
\* pushed box, no longer than any other such walk, followed by exactly the
\* push label; the detailed sequence of the chain is the concatenation of
\* its segments, so it holds one push per link, is never shorter than the
\* push-only sequence, and is as long exactly when the player stands on the
\* push cell at every link.
C33_DetailedSegments ==
    cur # None =>
        LET chain == Ancestry(arena, cur)
            links == {chain[k] : k \in 2..Len(chain)}
            detailed == get_detailed_solution_with_player_moves(matrix, arena, cur)
            pushes == get_solution_path(arena, cur)
        IN  /\ \A i \in links :
                LET parent == arena[arena[i].parent]
                    seg == Segment(i)
                    walk == SubSeq(seg, 1, Len(seg) - 1)
                IN  /\ Len(seg) >= 1
                    /\ seg[Len(seg)] = arena[i].move_action
                    /\ \A k \in 1..Len(walk) :
                        /\ walk[k] \in DirLabels
                        /\ PosAfter(parent.player_pos, walk, k) \in WalkableCells(matrix, parent)
                    /\ PosAfter(parent.player_pos, walk, Len(walk)) = PushCell(i)
                    /\ Plus(PushCell(i), arena[i].move_action) \in parent.box_positions
                    /\ Len(walk) > 0 => PushCell(i) \notin Within(matrix, parent, parent.player_pos, Len(walk) - 1)
            /\ detailed = Concat([k \in 1..(Len(chain) - 1) |-> Segment(chain[k + 1])])
            /\ Len(detailed) >= Len(pushes)
            /\ Len(pushes) = Len(chain) - 1
            /\ (Len(detailed) = Len(pushes)) <=>
                    (\A i \in links : arena[arena[i].parent].player_pos = PushCell(i))

\* C33 witness: a chain of two or more links with a link whose walk takes
\* three or more steps and a link where the player pushes from where it
\* stands.
C33_Witness ==
    /\ cur # None
    /\ Len(Ancestry(arena, cur)) >= 3
    /\ \E k \in 2..Len(Ancestry(arena, cur)) : Len(Segment(Ancestry(arena, cur)[k])) >= 4
    /\ \E k \in 2..Len(Ancestry(arena, cur)) : Len(Segment(Ancestry(arena, cur)[k])) = 1

-----------------------------------------------------------------------------
(* Properties of the heuristic. *)

\* The sum of cost[e] over the elements e of S.
RECURSIVE SumCosts(_, _)
SumCosts(S, cost) ==
    IF S = {} THEN 0
    ELSE LET e == CHOOSE x \in S : TRUE
         IN  cost[e] + SumCosts(S \ {e}, cost)

\* The least total Manhattan distance of a one-to-one matching between the
\* boxes B and the goals G that pairs every element of the smaller set.
MinMatchingCost(B, G) ==
    IF B = {} \/ G = {} THEN 0
    ELSE IF Cardinality(B) <= Cardinality(G)
    THEN Min({SumCosts(B, [b \in B |-> _manhattan_distance(b, f[b])]) :
                f \in {f \in [B -> G] : \A a, b \in B : a # b => f[a] # f[b]}})
    ELSE Min({SumCosts(G, [g \in G |-> _manhattan_distance(f[g], g)]) :
                f \in {f \in [G -> B] : \A a, b \in G : a # b => f[a] # f[b]}})

\* The sum over the boxes B of the distance to the nearest goal of G.
NearestGoalCost(B, G) ==
    SumCosts(B, [b \in B |-> Min({_manhattan_distance(b, g) : g \in G})])

\* max(0, least distance from the player to an off-goal box - 1).
PlayerCost(s) ==
    LET B == get_boxes_not_on_goals(s)
    IN  IF B = {} THEN 0
        ELSE LET d == Min({_manhattan_distance(s.player_pos, b) : b \in B})
             IN  IF d - 1 > 0 THEN d - 1 ELSE 0

\* C34: for a non-goal state every value the heuristic can return is the
\* assignment cost plus max(0, least player-to-box distance - 1) plus the
\* penalty, the assignment cost being the least total distance over the
\* one-to-one matchings of off-goal boxes to unfilled goals when both sets
\* have at most 4 elements and the nearest-goal sum otherwise.
C34_HeuristicValue ==
    (cur # None /\ ~is_goal_state(arena[cur])) =>
        LET s == arena[cur]
            B == get_boxes_not_on_goals(s)
            G == get_goals_without_boxes(s)
            assignment == IF Cardinality(B) <= 4 /\ Cardinality(G) <= 4
                          THEN MinMatchingCost(B, G)
                          ELSE NearestGoalCost(B, G)
        IN  \A h \in HeuristicValues(matrix, s) :
                h = assignment + PlayerCost(s) + _calculate_deadlock_penalty(matrix, s)

\* The same statement for the states with no more boxes than goals.
C34_HeuristicValueBalanced ==
    (cur # None /\ Cardinality(arena[cur].box_positions) <= Cardinality(arena[cur].goal_positions))
        => C34_HeuristicValue

\* The cell at pos is a wall of the grid or lies outside it.
Blocked(m, pos) ==
    InsideGrid(m, pos) => m[pos[2] + 1][pos[1] + 1] = "#"

\* A wall on one horizontal and on one vertical neighbour of b.
WallCorner(m, b) ==
    /\ Blocked(m, Plus(b, "L")) \/ Blocked(m, Plus(b, "R"))
    /\ Blocked(m, Plus(b, "U")) \/ Blocked(m, Plus(b, "D"))

\* A wall above or below b and no goal in its row, or a wall left or right
\* of b and no goal in its column.
WallEdgeWithoutGoal(m, s, b) ==
    \/ /\ Blocked(m, Plus(b, "U")) \/ Blocked(m, Plus(b, "D"))
       /\ \A g \in s.goal_positions : g[2] # b[2]
    \/ /\ Blocked(m, Plus(b, "L")) \/ Blocked(m, Plus(b, "R"))
       /\ \A g \in s.goal_positions : g[1] # b[1]

\* C35: the penalty is 100 for every off-goal box with a wall on one
\* horizontal and one vertical neighbour, plus 10 for every other off-goal
\* box that touches a wall above or below with no goal in its row or a wall
\* left or right with no goal in its column, and nothing for the remaining
\* boxes; an off-goal box with a wall on exactly one side and no goal in its
\* row or column contributes 10.
C35_Penalty ==
    cur # None =>
        LET s == arena[cur]
            B == get_boxes_not_on_goals(s)
            corner == {b \in B : WallCorner(matrix, b)}
            edge == {b \in B \ corner : WallEdgeWithoutGoal(matrix, s, b)}
        IN  /\ _calculate_deadlock_penalty(matrix, s) = 100 * Cardinality(corner) + 10 * Cardinality(edge)
            /\ \A b \in B :
                /\ BoxPenalty(matrix, s, b) =
                      (IF b \in corner THEN 100 ELSE IF b \in edge THEN 10 ELSE 0)
                /\ (/\ Cardinality({d \in DirLabels : Blocked(matrix, Plus(b, d))}) = 1
                    /\ \A g \in s.goal_positions : g[1] # b[1] /\ g[2] # b[2])
                   => BoxPenalty(matrix, s, b) = 10
            /\ \A b \in s.box_positions \ B : BoxPenalty(matrix, s, b) = 0

\* C35 witness: after a push, one off-goal box stands in a corner and
\* another against a single wall that has a goal in its column and none in
\* its row: the penalty is 110.
C35_Witness ==
    /\ cur # None
    /\ Len(arena) >= 2
    /\ _calculate_deadlock_penalty(matrix, arena[cur]) = 110
    /\ \E b \in get_boxes_not_on_goals(arena[cur]) :
        /\ Cardinality({d \in DirLabels : Blocked(matrix, Plus(b, d))}) = 1
        /\ Blocked(matrix, Plus(b, "U")) \/ Blocked(matrix, Plus(b, "D"))
        /\ \E g \in arena[cur].goal_positions : g[1] = b[1]
        /\ BoxPenalty(matrix, arena[cur], b) = 10

-----------------------------------------------------------------------------
(* Properties of the states the drivers hold and of the results they return. *)

\* C36: no step of a driver or of the replay, whether it generates
\* successors, tests them for deadlock, evaluates the heuristic or
\* reconstructs a path, changes the player position, the box set or the goal
\* set of a state that exists, or the grid; every state a step creates is a
\* further state whose box set differs from its parent's in one box and
\* whose goal set is its parent's.
C36_StatesAreImmutable ==
    [][ pc # "call" =>
        /\ matrix' = matrix
        /\ Len(arena') >= Len(arena)
        /\ \A i \in 1..Len(arena) :
            /\ arena'[i].player_pos = arena[i].player_pos
            /\ arena'[i].box_positions = arena[i].box_positions
            /\ arena'[i].goal_positions = arena[i].goal_positions
            /\ arena'[i].parent = arena[i].parent
            /\ arena'[i].move_action = arena[i].move_action
        /\ \A j \in (Len(arena) + 1)..Len(arena') :
            /\ arena'[j].parent \in 1..Len(arena)
            /\ Cardinality(arena'[j].box_positions \ arena[arena'[j].parent].box_positions) = 1
            /\ Cardinality(arena[arena'[j].parent].box_positions \ arena'[j].box_positions) = 1
            /\ arena'[j].goal_positions = arena[arena'[j].parent].goal_positions
            /\ arena'[j].player_pos \in arena[arena'[j].parent].box_positions ]_vars

\* C36 witness: the replay of a DFS solution of two or more pushes is under
\* way after a search that dropped deadlocked successors, and the initial
\* state still holds the boxes, goals and player of the level.
C36_Witness ==
    /\ pc = "animate"
    /\ solver = "dfs"
    /\ use_deadlock_detection
    /\ deadlocks_detected > 0
    /\ Len(result[1].solution) >= 2
    /\ animation.index >= 1
    /\ arena[1] = create_initial_state(level).state[1]

\* C37: whenever a driver has returned success, the final state of the
\* result is a goal state, its chain starts at the initial state of the
\* level, every link of the chain is a legal push of its parent that moves
\* one box one cell and puts the player where the box was, and with deadlock
\* detection enabled the detector flags no state of the chain.
C37_SuccessIsSound ==
    (pc \in {"returned", "animate", "break"} /\ result[1].success) =>
        /\ result[1].final_state \in 1..Len(arena)
        /\ LET final == arena[result[1].final_state]
               chain == Ancestry(arena, result[1].final_state)
           IN  /\ is_goal_state(final)
               /\ final.box_positions = final.goal_positions
               /\ chain[1] = 1
               /\ arena[1] = create_initial_state(level).state[1]
               /\ \A k \in 2..Len(chain) :
                    LET parent == arena[chain[k - 1]]
                        child == arena[chain[k]]
                        b == child.player_pos
                        d == child.move_action
                    IN  /\ child.parent = chain[k - 1]
                        /\ b \in parent.box_positions
                        /\ d \in DirLabels
                        /\ LegalPush(matrix, parent, b, d)
                        /\ child.box_positions = (parent.box_positions \ {b}) \cup {Plus(b, d)}
               /\ use_deadlock_detection =>
                    \A k \in 1..Len(chain) : ~is_deadlock(matrix, arena[chain[k]])

\* C37 witness: DFS with deadlock detection returned success three or more
\* pushes below the initial state after dropping deadlocked successors.
C37_Witness ==
    /\ pc = "returned"
    /\ solver = "dfs"
    /\ result[1].success
    /\ use_deadlock_detection
    /\ deadlocks_detected > 0
    /\ Len(Ancestry(arena, result[1].final_state)) >= 4
    /\ is_goal_state(arena[result[1].final_state])

\* The state keys one legal push away from key whose state the detector
\* does not flag.
UnflaggedPushedKeys(m, goals, key) ==
    {k \in PushedKeys(m, goals, key) : ~detect_deadlock(m, State(k[1], k[2], goals))}

RECURSIVE UnflaggedPushClosure(_, _, _, _)
UnflaggedPushClosure(m, goals, frontier, seen) ==
    LET new == (UNION {UnflaggedPushedKeys(m, goals, key) : key \in frontier}) \ seen
    IN  IF new = {} THEN seen ELSE UnflaggedPushClosure(m, goals, new, seen \cup new)

\* Some goal state is reachable from s by legal pushes through states the
\* detector does not flag.
GoalReachableUnflagged(m, s) ==
    \E key \in UnflaggedPushClosure(m, s.goal_positions, {get_state_key(s)}, {get_state_key(s)}) :
        key[2] = s.goal_positions

\* C38: a DFS call that no bound cuts short returns success exactly when a
\* goal state is reachable from the initial state by legal pushes, with
\* deadlock detection enabled as with it disabled, and dropping the flagged
\* successors leaves a goal state reachable whenever one is: both settings
\* return success on the same puzzles. With detection disabled
\* deadlocks_detected stays 0 and every generated successor is stored or
\* counted as a duplicate.
C38_PruningKeepsSolvability ==
    /\ (solver = "dfs" /\ pc = "returned" /\ ~BoundTripped) =>
        IF arena = <<>> THEN ~result[1].success
        ELSE /\ result[1].success <=> GoalReachable(matrix, arena[1])
             /\ GoalReachable(matrix, arena[1]) <=> GoalReachableUnflagged(matrix, arena[1])
    /\ (solver = "dfs" /\ ~use_deadlock_detection /\ pc # "call" /\ arena # <<>>) =>
        /\ deadlocks_detected = 0
        /\ states_generated = duplicate_states + (Len(arena) - 1)

\* C38 witness: DFS with detection enabled returned success on a puzzle on
\* which it dropped deadlocked successors and expanded three or more states.
C38_Witness ==
    /\ solver = "dfs"
    /\ pc = "returned"
    /\ use_deadlock_detection
    /\ result[1].success
    /\ deadlocks_detected >= 2
    /\ states_explored >= 3
    /\ GoalReachableUnflagged(matrix, arena[1])

-----------------------------------------------------------------------------
(* Properties of single steps. *)

\* The step with label move is refused in s: no label, the player's target
\* off-grid or a wall, or a box on the target whose next cell is off-grid, a
\* wall or another box.
StepRefused(m, s, move) ==
    \/ move \notin DirLabels
    \/ /\ move \in DirLabels
       /\ \/ Blocked(m, Plus(s.player_pos, move))
          \/ /\ Plus(s.player_pos, move) \in s.box_positions
             /\ \/ Blocked(m, Plus(Plus(s.player_pos, move), move))
                \/ Plus(Plus(s.player_pos, move), move) \in s.box_positions

\* C39: a call of apply_single_move returns None exactly when the step is
\* refused, and then the state stays as it was; otherwise it returns a
\* further state in which the player stands one cell on in the direction of
\* the label, the box that stood there, if any, stands one cell further in
\* the same direction, every other box is where it was, and the number of
\* boxes and the goals are unchanged; the state the call was applied to
\* keeps its fields in both cases.
C39_SingleStep ==
    [][ pc = "step" =>
        LET s == arena[cur]
            move == animation'.moves[1]
            target == Plus(s.player_pos, move)
        IN  /\ arena'[cur] = arena[cur]
            /\ IF StepRefused(matrix, s, move)
               THEN /\ animation'.state = <<>>
                    /\ arena' = arena
                    /\ cur' = cur
               ELSE /\ animation'.state # <<>>
                    /\ arena' = Append(arena, animation'.state[1])
                    /\ LET n == animation'.state[1]
                           moved == s.box_positions \ n.box_positions
                       IN  /\ n.player_pos = target
                           /\ n.goal_positions = s.goal_positions
                           /\ Cardinality(n.box_positions) = Cardinality(s.box_positions)
                           /\ Cardinality(moved) <= 1
                           /\ moved = {target} \cap s.box_positions
                           /\ n.box_positions \ s.box_positions = {Plus(b, move) : b \in moved}
                           /\ n.player_pos \notin n.box_positions ]_vars

\* C39 witness: after a step that pushed a box, a step with a direction
\* label was refused because the box on the target has another box behind it.
C39_Witness ==
    /\ pc = "step"
    /\ animation.index = 2
    /\ animation.state = <<>>
    /\ animation.moves[1] \in DirLabels
    /\ Len(arena) = 2
    /\ arena[2].box_positions # arena[1].box_positions
    /\ Plus(arena[cur].player_pos, animation.moves[1]) \in arena[cur].box_positions
    /\ Plus(Plus(arena[cur].player_pos, animation.moves[1]), animation.moves[1]) \in arena[cur].box_positions

-----------------------------------------------------------------------------
(* Properties of the solution DFS returns. *)

\* C40: when DFS returns success with a final state below the initial
\* state, result.solution holds the push labels of the chain of the final
\* state in order, one per push, as many as the final state is deep; it is
\* the detailed sequence only when that has no walking step.
C40_DFSSolutionIsPushPath ==
    (/\ solver = "dfs"
     /\ pc \in {"returned", "animate", "break"}
     /\ result[1].success
     /\ arena[result[1].final_state].parent # None) =>
        LET chain == Ancestry(arena, result[1].final_state)
            solution == result[1].solution
            detailed == get_detailed_solution_moves(matrix, arena, result[1].final_state)
        IN  /\ Len(solution) = Len(chain) - 1
            /\ \A k \in 1..Len(solution) : solution[k] = arena[chain[k + 1]].move_action
            /\ Len(detailed) > Len(chain) - 1 => solution # detailed
            /\ Len(detailed) >= Len(solution)
            /\ pc \in {"animate", "break"} => Len(animation.moves) >= Len(solution)

\* C40 witness: DFS returned success two or more pushes deep with a
\* solution shorter than the detailed sequence of its final state.
C40_Witness ==
    /\ solver = "dfs"
    /\ pc = "returned"
    /\ result[1].success
    /\ Len(result[1].solution) >= 2
    /\ Len(result[1].solution) = Len(Ancestry(arena, result[1].final_state)) - 1
    /\ Len(get_detailed_solution_moves(matrix, arena, result[1].final_state)) > Len(result[1].solution)

====
